---- MODULE Spec2Model ----
(***************************************************************************)
(* State-machine model of txtrader/rtx.py: the RealTick gateway adapter.   *)
(* Channels (RTX_Connection), the channel pool, the callback registry      *)
(* (API_Callback) with its 1 Hz expiry sweep, the account model and the    *)
(* order book (API_Order) are modelled from the source.  Every method is   *)
(* an operator from a program state S (a record of all fields of the RTX   *)
(* singleton) to the program state after the call; every action of the     *)
(* model is one event-loop callback run to completion.                     *)
(***************************************************************************)
EXTENDS Integers, Sequences, FiniteSets, TLC

VARIABLES
    active_cxn,               \* RTX.active_cxn: sequence of channels, index = channel id
    idle_cxn,                 \* RTX.idle_cxn: key -> stack of channel ids
    callbacks,                \* every API_Callback allocated so far, index = identity
    cblists,                  \* the per-purpose callback lists swept by CheckPendingResults
    now,                      \* time.time(), in whole seconds
    gateway_sender,           \* RTX.gateway_sender is set (upstream socket connected)
    connected,                \* RTX.connected (startup frame seen)
    connection_status,        \* RTX.connection_status
    accounts,                 \* RTX.accounts (<<>> stands for None)
    account_request_pending,  \* RTX.account_request_pending
    current_account,          \* RTX.current_account
    order_objs,               \* every API_Order allocated so far, index = identity
    orders,                   \* RTX.orders: oid -> index into order_objs
    pending_orders,           \* RTX.pending_orders: key -> index into order_objs
    tickets,                  \* RTX.tickets: ticket id -> index into order_objs
    pending_tickets,          \* RTX.pending_tickets: ticket id -> index into order_objs
    seconds_disconnected,     \* RTX.seconds_disconnected
    order_route,              \* RTX.order_route: the route name (its single key)
    clients,                  \* RTX.clients: the downstream clients connected
    symbol_objs,              \* every API_Symbol allocated so far, index = identity
    symbols,                  \* RTX.symbols: symbol -> index into symbol_objs
    enable_ticker,            \* RTX.enable_ticker (ENABLE_TICKER of the configuration)
    ticks_down,               \* history: consecutive 1 Hz ticks with the upstream socket down
    wire,                     \* frames the upstream gateway still owes, per channel
    ev                        \* what the handler that ran last did (outputs, alerts, completions)

vars == <<active_cxn, idle_cxn, callbacks, cblists, now, gateway_sender, connected,
          connection_status, accounts, account_request_pending, current_account,
          order_objs, orders, pending_orders, tickets, pending_tickets,
          seconds_disconnected, order_route,
          clients, symbol_objs, symbols, enable_ticker, ticks_down, wire, ev>>

---------------------------------------------------------------------------
(* Bounds of the model *)

MaxCxn == 3        \* channels ever created
MaxWire == MaxCxn + 1   \* channels ever created when a further one is opened while Up
MaxCb == 3         \* callbacks ever allocated
MaxTime == 2       \* seconds of wall clock explored
MaxRows == 1       \* rows buffered for one request
MaxIdle == 2       \* entries of one idle stack
MaxOrders == 2     \* API_Order objects ever allocated
MaxPending == 2    \* requests a downstream client keeps outstanding
MaxUpdates == 2    \* entries of one order's updates list

---------------------------------------------------------------------------
(* Values *)

None == "None"
NoCb == 0

\* TIMEOUT_<type> configuration values (seconds)
callback_timeout ==
    [DEFAULT |-> 2, ACCOUNT |-> 1, ADDSYMBOL |-> 1, ORDER |-> 1,
     ORDERSTATUS |-> 1, POSITION |-> 1, TIMER |-> 1]

Keys == {"ACCOUNT_GATEWAY;ORDER", "TA_SRV;LIVEQUOTE"}

\* the swept lists, in the order CheckPendingResults visits them
ListNames ==
    <<"timer_callbacks", "position_callbacks", "ticket_callbacks", "openorder_callbacks",
      "execution_callbacks", "bardata_callbacks", "order_callbacks", "cancel_callbacks",
      "add_symbol_callbacks", "accountdata_callbacks", "set_account_callbacks",
      "account_request_callbacks", "order_status_callbacks">>

Range(s) == {s[i] : i \in DOMAIN s}

EmptyMap == [k \in {} |-> None]
Get(m, k, d) == IF k \in DOMAIN m THEN m[k] ELSE d
Put(m, k, v) == [x \in (DOMAIN m) \cup {k} |-> IF x = k THEN v ELSE m[x]]
Del(m, k) == [x \in (DOMAIN m) \ {k} |-> m[x]]

\* on_connect_action = None
NoAction ==
    [cmd |-> None, args |-> None, exa |-> None, cba |-> NoCb, exr |-> FALSE, cbr |-> NoCb,
     exs |-> None, cbs |-> NoCb, cbu |-> NoCb, uhr |-> None]

\* a value handed to a continuation
Result(kind, s, st, rows) == [kind |-> kind, s |-> s, st |-> st, rows |-> rows]
NullResult == Result("null", None, None, <<>>)
Value(s) == Result("value", s, None, <<>>)

\* no frame of the upstream
NoFrame == [type |-> None, data |-> None, msg |-> None, status |-> None,
            row |-> EmptyMap, complete |-> FALSE]

NewEv(op) ==
    [op |-> op, arg |-> None, client |-> None, cxn |-> 0, frame |-> NoFrame, sent |-> <<>>,
     alerts |-> <<>>, out |-> <<>>, fired |-> <<>>, row |-> EmptyMap, ret |-> None,
     raised |-> FALSE, stopped |-> FALSE]

\* the program state as one record
Cur ==
    [active_cxn |-> active_cxn, idle_cxn |-> idle_cxn, callbacks |-> callbacks,
     cblists |-> cblists, now |-> now, gateway_sender |-> gateway_sender,
     connected |-> connected, connection_status |-> connection_status,
     accounts |-> accounts, account_request_pending |-> account_request_pending,
     current_account |-> current_account, order_objs |-> order_objs, orders |-> orders,
     pending_orders |-> pending_orders, tickets |-> tickets,
     pending_tickets |-> pending_tickets, seconds_disconnected |-> seconds_disconnected,
     order_route |-> order_route, clients |-> clients, symbol_objs |-> symbol_objs,
     symbols |-> symbols, enable_ticker |-> enable_ticker, ticks_down |-> ticks_down,
     wire |-> wire, ev |-> ev]

Commit(S) ==
    /\ active_cxn' = S.active_cxn
    /\ idle_cxn' = S.idle_cxn
    /\ callbacks' = S.callbacks
    /\ cblists' = S.cblists
    /\ now' = S.now
    /\ gateway_sender' = S.gateway_sender
    /\ connected' = S.connected
    /\ connection_status' = S.connection_status
    /\ accounts' = S.accounts
    /\ account_request_pending' = S.account_request_pending
    /\ current_account' = S.current_account
    /\ order_objs' = S.order_objs
    /\ orders' = S.orders
    /\ pending_orders' = S.pending_orders
    /\ tickets' = S.tickets
    /\ pending_tickets' = S.pending_tickets
    /\ seconds_disconnected' = S.seconds_disconnected
    /\ order_route' = S.order_route
    /\ clients' = S.clients
    /\ symbol_objs' = S.symbol_objs
    /\ symbols' = S.symbols
    /\ enable_ticker' = S.enable_ticker
    /\ ticks_down' = S.ticks_down
    /\ wire' = S.wire
    /\ ev' = S.ev

\* the variables hold the program state S
Holds(S) ==
    /\ active_cxn = S.active_cxn
    /\ idle_cxn = S.idle_cxn
    /\ callbacks = S.callbacks
    /\ cblists = S.cblists
    /\ now = S.now
    /\ gateway_sender = S.gateway_sender
    /\ connected = S.connected
    /\ connection_status = S.connection_status
    /\ accounts = S.accounts
    /\ account_request_pending = S.account_request_pending
    /\ current_account = S.current_account
    /\ order_objs = S.order_objs
    /\ orders = S.orders
    /\ pending_orders = S.pending_orders
    /\ tickets = S.tickets
    /\ pending_tickets = S.pending_tickets
    /\ seconds_disconnected = S.seconds_disconnected
    /\ order_route = S.order_route
    /\ clients = S.clients
    /\ symbol_objs = S.symbol_objs
    /\ symbols = S.symbols
    /\ enable_ticker = S.enable_ticker
    /\ ticks_down = S.ticks_down
    /\ wire = S.wire
    /\ ev = S.ev

Begin(op) == [Cur EXCEPT !.ev = NewEv(op)]

---------------------------------------------------------------------------
(* RTX: output to the downstream clients *)

WriteAllClients(S, msg) == [S EXCEPT !.ev.out = Append(@, msg)]

error_handler(S, msg) ==
    WriteAllClients([S EXCEPT !.ev.alerts = Append(@, msg)], "error: " \o msg)

update_connection_status(S, status) ==
    LET S1 == [S EXCEPT !.connection_status = status]
    IN  IF status # S.connection_status
        THEN WriteAllClients(S1, "connection-status-changed: " \o status)
        ELSE S1

\* reactor.stop() ends the event loop: no handler runs afterwards
force_disconnect(S, reason) ==
    LET S1 == update_connection_status(S, "Disconnected")
        S2 == error_handler(S1, "API Disconnect: " \o reason)
    IN  [S2 EXCEPT !.ev.stopped = TRUE]

---------------------------------------------------------------------------
(* API_Callback *)

RECURSIVE complete(_, _, _)

\* a continuation: .callback and .errback of a downstream deferred ("client"),
\* or the handlers of an RTX_LocalCallback
Callable(cb, eb) == [callback |-> cb, errback |-> eb]
Client == Callable("client", "client")
NoCallable == Callable(None, None)

NextCb(S) == Len(S.callbacks) + 1

API_Callback(S, id, label, callable, timeout) ==
    [S EXCEPT !.callbacks = Append(@,
        [id |-> id, label |-> label, started |-> S.now,
         timeout |-> IF timeout # 0 THEN timeout ELSE callback_timeout.DEFAULT,
         expire |-> S.now + timeout,
         callable |-> callable, done |-> FALSE, expired |-> FALSE, fired |-> 0])]

\* RTX_LocalCallback.errback and the errback of a downstream deferred
Errback(S, callable) ==
    CASE callable.errback = "client" -> S
      [] callable.errback = "handle_initial_account_failure" ->
            force_disconnect(S, "Initial account query failed")
      [] callable.errback = "handle_time_error" -> S
      [] OTHER -> error_handler(S, "Failure: undefined errback_handler")

\* check_expire as it would be if expiry also released the channel of the request
check_expire_releasing(S, c) ==
    LET cb == S.callbacks[c] IN
    IF ~cb.done /\ S.now > cb.expire
    THEN LET S1 == WriteAllClients(S, "error: callback expired")
             S2 == [S1 EXCEPT !.ev.fired =
                        Append(@, [cb |-> c, how |-> "errback", result |-> Result("expired", None, None, <<>>)]),
                              !.callbacks[c].fired = @ + 1]
             S3 == Errback(S2, cb.callable)
             S4 == [S3 EXCEPT !.active_cxn =
                        [i \in DOMAIN @ |->
                            IF @[i].response_callback = c
                            THEN [@[i] EXCEPT !.response_pending = FALSE,
                                              !.response_callback = NoCb]
                            ELSE @[i]]]
         IN  [S4 EXCEPT !.callbacks[c].expired = TRUE, !.callbacks[c].done = TRUE]
    ELSE S

check_expire(S, c) ==
    LET cb == S.callbacks[c] IN
    IF ~cb.done /\ S.now > cb.expire
    THEN LET S1 == WriteAllClients(S, "error: callback expired")
             S2 == [S1 EXCEPT !.ev.fired =
                        Append(@, [cb |-> c, how |-> "errback", result |-> Result("expired", None, None, <<>>)]),
                              !.callbacks[c].fired = @ + 1]
             S3 == Errback(S2, cb.callable)
         IN  [S3 EXCEPT !.callbacks[c].expired = TRUE, !.callbacks[c].done = TRUE]
    ELSE S

RECURSIVE ExpireAll(_, _)
ExpireAll(S, cbs) ==
    IF cbs = <<>> THEN S ELSE ExpireAll(check_expire(S, Head(cbs)), Tail(cbs))

\* one list of CheckPendingResults: expire, then drop the entries that are done
DropDone(S, name) ==
    [S EXCEPT !.cblists[name] = SelectSeq(@, LAMBDA c : ~S.callbacks[c].done)]

SweepList(S, name) == DropDone(ExpireAll(S, S.cblists[name]), name)

RECURSIVE SweepLists(_, _)
SweepLists(S, names) ==
    IF names = <<>> THEN S ELSE SweepLists(SweepList(S, Head(names)), Tail(names))

CheckPendingResults(S) == SweepLists(S, ListNames)

---------------------------------------------------------------------------
(* API_Order *)

HasField(m, k) == k \in DOMAIN m

API_Order(S, oid, data, callback) ==
    [S EXCEPT !.order_objs = Append(@,
        [oid |-> oid, fields |-> data, callback |-> callback, updates |-> <<>>,
         suborders |-> EmptyMap])]

\* json.dumps(self.fields): after a render, fields['updates'] is the updates list itself
FieldState(o) == <<o.fields, IF HasField(o.fields, "updates") THEN o.updates ELSE <<>>>>

has_fill_type(o) ==
    \/ o.fields["TYPE"] = "ExchangeTradeOrder"
    \/ \E i \in DOMAIN o.updates : o.updates[i].type = "ExchangeTradeOrder"

\* is_filled as it would be if the fill type were not required
is_filled_any(o) ==
    /\ o.fields["CURRENT_STATUS"] = "COMPLETED"
    /\ HasField(o.fields, "ORIGINAL_VOLUME")
    /\ HasField(o.fields, "VOLUME_TRADED")
    /\ o.fields["ORIGINAL_VOLUME"] = o.fields["VOLUME_TRADED"]

is_filled(o) ==
    /\ o.fields["CURRENT_STATUS"] = "COMPLETED"
    /\ has_fill_type(o)
    /\ HasField(o.fields, "ORIGINAL_VOLUME")
    /\ HasField(o.fields, "VOLUME_TRADED")
    /\ o.fields["ORIGINAL_VOLUME"] = o.fields["VOLUME_TRADED"]

CopyField(f, from, to) == IF HasField(f, from) THEN Put(f, to, f[from]) ELSE f

update_fill_fields(f) ==
    IF f["TYPE"] \in {"UserSubmitOrder", "ExchangeTradeOrder"}
    THEN CopyField(CopyField(CopyField(f, "VOLUME_TRADED", "filled"),
                             "ORDER_RESIDUAL", "remaining"), "AVG_PRICE", "avgfillprice")
    ELSE f

make_account(row) ==
    row["BANK"] \o "." \o row["BRANCH"] \o "." \o row["CUSTOMER"] \o "." \o row["DEPOSIT"]

SetStatus(f, st) == Put(f, "status", st)

\* API_Order.render, first part: permid, symbol, account and the defaults of
\* CURRENT_STATUS and TYPE
BaseFields(f) ==
    Put(Put(Put(f, "permid", f["ORIGINAL_ORDER_ID"]), "symbol", f["DISP_NAME"]),
        "account", make_account(f))

WithStatus(f) == IF HasField(f, "CURRENT_STATUS") THEN f ELSE Put(f, "CURRENT_STATUS", "UNDEFINED")

WithType(f) == IF HasField(f, "TYPE") THEN f ELSE Put(f, "TYPE", "Undefined")

\* API_Order.render, the status table, for the order ord with fields f
StatusFields(ord, f) ==
    CASE f["CURRENT_STATUS"] = "PENDING" -> SetStatus(f, "Submitted")
      [] f["CURRENT_STATUS"] = "LIVE" -> update_fill_fields(SetStatus(f, "Pending"))
      [] f["CURRENT_STATUS"] = "COMPLETED" ->
           (CASE is_filled(ord) ->
                   IF f["TYPE"] = "ExchangeTradeOrder"
                   THEN update_fill_fields(SetStatus(f, "Filled"))
                   ELSE SetStatus(f, "Filled")
              [] ~is_filled(ord) /\ f["TYPE"] \in {"UserSubmitOrder", "UserSubmitStagedOrder",
                                                   "UserSubmitStatus", "ExchangeReportStatus"} ->
                   update_fill_fields(SetStatus(f, "Submitted"))
              [] ~is_filled(ord) /\ f["TYPE"] = "UserSubmitCancel" -> SetStatus(f, "Cancelled")
              [] ~is_filled(ord) /\ f["TYPE"] = "UserSubmitChange" -> SetStatus(f, "Changed")
              [] ~is_filled(ord) /\ f["TYPE"] = "ExchangeAcceptOrder" -> SetStatus(f, "Accepted")
              [] ~is_filled(ord) /\ f["TYPE"] = "ExchangeTradeOrder" -> update_fill_fields(f)
              [] ~is_filled(ord) /\ f["TYPE"] \in {"ClerkReject", "ExchangeKillOrder"} ->
                   SetStatus(f, "Error")
              [] OTHER -> SetStatus(f, "Error"))
      [] f["CURRENT_STATUS"] = "CANCELLED" -> SetStatus(f, "Cancelled")
      [] f["CURRENT_STATUS"] = "DELETED" -> SetStatus(f, "Error")
      [] OTHER -> SetStatus(f, "Error")

\* API_Order.render reports a status or type it does not know
UnknownStatus(ord, f) ==
    \/ f["CURRENT_STATUS"] \notin {"PENDING", "LIVE", "COMPLETED", "CANCELLED", "DELETED"}
    \/ /\ f["CURRENT_STATUS"] = "COMPLETED"
       /\ ~is_filled(ord)
       /\ f["TYPE"] \notin {"UserSubmitOrder", "UserSubmitStagedOrder", "UserSubmitStatus",
                            "ExchangeReportStatus", "UserSubmitCancel", "UserSubmitChange",
                            "ExchangeAcceptOrder", "ExchangeTradeOrder", "ClerkReject",
                            "ExchangeKillOrder"}

\* the order o with the fields f (defaults set): the derived status and the updates
Rendered(S, o, f) ==
    [(IF UnknownStatus([S.order_objs[o] EXCEPT !.fields = f], f)
      THEN error_handler(S, "Unknown TYPE or CURRENT_STATUS") ELSE S)
        EXCEPT !.order_objs[o].fields =
                   Put(StatusFields([S.order_objs[o] EXCEPT !.fields = f], f),
                       "updates", "<updates>")]

\* an exception leaves the running handler: the statements after it do not run
Raise(S) == [S EXCEPT !.ev.raised = TRUE]

\* the fields render reads without a default: a missing one is a KeyError
RenderKeys == {"ORIGINAL_ORDER_ID", "DISP_NAME", "BANK", "BRANCH", "CUSTOMER", "DEPOSIT"}

\* API_Order.render: the order with its derived fields
render(S, o) ==
    IF RenderKeys \subseteq DOMAIN S.order_objs[o].fields
    THEN Rendered(S, o, WithType(WithStatus(BaseFields(S.order_objs[o].fields))))
    ELSE Raise(S)

StatusLine(f) ==
    "order." \o f["permid"] \o " " \o f["account"] \o " " \o f["TYPE"] \o " " \o f["status"]

\* send_order_status after render: fields['status'] of an order that never got one
\* is a KeyError
OrderStatusOut(S, o) ==
    IF S.ev.raised \/ ~HasField(S.order_objs[o].fields, "status")
    THEN Raise(S)
    ELSE WriteAllClients(S, StatusLine(S.order_objs[o].fields))

send_order_status(S, o) == OrderStatusOut(render(S, o), o)

\* the row's fields that differ from the order's
Changes(fields, data) ==
    [k \in {x \in DOMAIN data : ~HasField(fields, x) \/ fields[x] # data[x]} |-> data[k]]

Merge(fields, data) ==
    [k \in (DOMAIN fields) \cup (DOMAIN data) |-> IF k \in DOMAIN data THEN data[k] ELSE fields[k]]

\* the classification as it would be if a repeated row counted as changed
ChangeOf_nodup(ord, data) ==
    IF ~HasField(data, "ORDER_ID") THEN "error"
    ELSE IF HasField(ord.suborders, data["ORDER_ID"]) THEN "changed" ELSE "new"

\* API_Order.update, the classification of the row against suborders
ChangeOf(ord, data) ==
    IF ~HasField(data, "ORDER_ID") THEN "error"
    ELSE IF HasField(ord.suborders, data["ORDER_ID"])
         THEN (IF data = ord.suborders[data["ORDER_ID"]] THEN "dup" ELSE "changed")
         ELSE "new"

\* API_Order.update, a new or changed row: the fields are merged and the changes logged
ApplyRow(ord, data, t) ==
    [ord EXCEPT !.suborders = Put(@, data["ORDER_ID"], data),
                !.fields = Merge(@, data),
                !.updates = IF Changes(ord.fields, data) # EmptyMap /\ data["ORDER_ID"] # ord.oid
                            THEN Append(@, [id |-> data["ORDER_ID"],
                                            type |-> Get(Changes(ord.fields, data), "TYPE",
                                                         "Undefined"),
                                            fields |-> Changes(ord.fields, data), time |-> t])
                            ELSE @]

UpdateFields(S, o, data, change) ==
    CASE change = "error" -> error_handler(S, "Order Update without ORDER_ID")
      [] change = "dup" -> S
      [] OTHER -> [S EXCEPT !.order_objs[o] = ApplyRow(@, data, S.now)]

\* API_Order.update, the end: a status message if the fields changed
NotifyIfChanged(S, o, field_state) ==
    IF FieldState(S.order_objs[o]) # field_state THEN send_order_status(S, o) ELSE S

update(S, o, data) ==
    NotifyIfChanged(UpdateFields(S, o, data, ChangeOf(S.order_objs[o], data)), o,
                    FieldState(S.order_objs[o]))

\* API_Order.initial_update, after the update: the order's callback gets the rendered order
CompleteRendered(S, o, cb) ==
    IF S.ev.raised THEN S
    ELSE [complete(S, cb, Result("order", None, None, <<S.order_objs[o].fields>>))
             EXCEPT !.order_objs[o].callback = NoCb]

InitialComplete(S, o) ==
    IF ~S.ev.raised /\ S.order_objs[o].callback # NoCb
    THEN CompleteRendered(render(S, o), o, S.order_objs[o].callback)
    ELSE S

initial_update(S, o, data) == InitialComplete(update(S, o, data), o)

\* handle_order_response, the branch a row takes
RowBranch(S, msg) ==
    IF ~HasField(msg, "ORIGINAL_ORDER_ID") THEN "no id"
    ELSE IF S.pending_orders # EmptyMap /\ HasField(msg, "CLIENT_ORDER_ID")
         THEN (IF HasField(S.pending_orders, msg["CLIENT_ORDER_ID"])
               THEN "submission" ELSE "none")
         ELSE IF S.pending_orders # EmptyMap /\ HasField(S.pending_orders, msg["ORIGINAL_ORDER_ID"])
              THEN "change"
              ELSE IF HasField(S.orders, msg["ORIGINAL_ORDER_ID"]) THEN "existing" ELSE "new"

\* the promotion as it would be if the entry stayed in pending_orders
Promote_keeping(S, msg, key, p, submission) ==
    IF S.ev.raised THEN S ELSE
    [S EXCEPT !.orders = IF submission THEN Put(@, msg["ORIGINAL_ORDER_ID"], p) ELSE @]

\* the pending order a row completes: it leaves pending_orders, and a new submission
\* enters orders under the row's ORIGINAL_ORDER_ID
Promote(S, msg, key, p, submission) ==
    IF S.ev.raised THEN S ELSE
    [S EXCEPT !.orders = IF submission THEN Put(@, msg["ORIGINAL_ORDER_ID"], p) ELSE @,
              !.pending_orders = Del(@, key)]

PendingRow(S, msg, key, submission) ==
    Promote(initial_update(S, S.pending_orders[key], msg), msg, key, S.pending_orders[key],
            submission)

\* an order never seen before is added to orders with empty fields
KnownOrder(S, oid) ==
    IF HasField(S.orders, oid) THEN S
    ELSE [API_Order(S, oid, EmptyMap, NoCb) EXCEPT !.orders = Put(@, oid, Len(S.order_objs) + 1)]

OrderRowUpdate(S, oid, msg) == update(S, S.orders[oid], msg)

RowDispatch(S, msg, branch) ==
    CASE branch = "no id" -> error_handler(S, "handle_order_update: ORIGINAL_ORDER_ID not found")
      [] branch = "none" -> S
      [] branch \in {"submission", "change"} ->
            PendingRow(S, msg,
                       IF branch = "submission" THEN msg["CLIENT_ORDER_ID"]
                       ELSE msg["ORIGINAL_ORDER_ID"],
                       branch = "submission")
      [] OTHER -> OrderRowUpdate(KnownOrder(S, msg["ORIGINAL_ORDER_ID"]),
                                 msg["ORIGINAL_ORDER_ID"], msg)

handle_order_response(S, msg) == RowDispatch([S EXCEPT !.ev.row = msg], msg, RowBranch(S, msg))

handle_order_update(S, msg) ==
    IF msg # EmptyMap
    THEN handle_order_response(S, msg)
    ELSE force_disconnect(S, "API Order Status ADVISE connection has been terminated")

---------------------------------------------------------------------------
(* The upstream gateway: what it owes a channel after a command *)

\* gone: the channel was opened on a socket that has closed since; the gateway of the
\* next socket does not know it and owes it nothing
NoWire == [acks |-> <<>>, stats |-> <<>>, reqs |-> 0, adv |-> FALSE, gone |-> FALSE]

Upstream(S, msg) ==
         LET w == S.wire[msg.id]
             w1 == CASE w.gone -> w
                     [] msg.cmd = "connect" ->
                          [w EXCEPT !.acks = Append(@, "CONNECTION PENDING"),
                                    !.stats = Append(@, "OnInitAck")]
                     [] msg.cmd = "request" ->
                          [w EXCEPT !.acks = Append(@, "REQUEST_OK"), !.reqs = @ + 1]
                     [] msg.cmd = "advise" ->
                          [w EXCEPT !.acks = Append(@, "ADVISE_OK"),
                                    !.stats = Append(@, "OnOtherAck"), !.adv = TRUE]
                     [] msg.cmd = "poke" ->
                          [w EXCEPT !.acks = Append(@, "POKE_OK"),
                                    !.stats = Append(@, "OnOtherAck")]
                     [] OTHER -> w
         IN  [S EXCEPT !.wire[msg.id] = w1]

gateway_send(S, msg) ==
    IF S.gateway_sender
    THEN Upstream([S EXCEPT !.ev.sent = Append(@, msg)], msg)
    ELSE S

---------------------------------------------------------------------------
(* Channel pool *)

cxn_activate(S, i) ==
    [S EXCEPT !.idle_cxn[S.active_cxn[i].key] = Append(@, i)]

update_ready(S, i) ==
    LET c == S.active_cxn[i]
        r == ~(\/ c.ack_pending # None
               \/ c.response_pending
               \/ c.status_pending # None
               \/ c.status_callback # NoCb
               \/ c.update_callback # NoCb
               \/ c.update_handler # None)
        S1 == [S EXCEPT !.active_cxn[i].ready = r]
    IN  IF r THEN cxn_activate(S1, i) ELSE S1

\* RTX_Connection.__init__ (which registers the channel: cxn_register)
RTX_Connection(S, key) ==
    LET i == Len(S.active_cxn) + 1
        S1 == [S EXCEPT !.active_cxn = Append(@,
                 [key |-> key, ack_pending |-> None, ack_callback |-> NoCb,
                  response_pending |-> FALSE, response_callback |-> NoCb,
                  response_rows |-> <<>>, status_pending |-> None,
                  status_callback |-> NoCb, update_callback |-> NoCb,
                  update_handler |-> None, connected |-> FALSE,
                  on_connect_action |-> NoAction, ready |-> FALSE])]
        S2 == gateway_send(S1, [cmd |-> "connect", id |-> i, args |-> key])
        S3 == [S2 EXCEPT !.active_cxn[i].ack_pending = "CONNECTION PENDING",
                         !.active_cxn[i].status_pending = "OnInitAck"]
    IN  update_ready(S3, i)

\* the channel cxn_get returns: the top of the idle stack, else a new one
CxnGetId(S, key) ==
    IF S.idle_cxn[key] # <<>> THEN S.idle_cxn[key][Len(S.idle_cxn[key])]
    ELSE Len(S.active_cxn) + 1

cxn_get(S, key) ==
    IF S.idle_cxn[key] # <<>>
    THEN [S EXCEPT !.idle_cxn[key] = SubSeq(@, 1, Len(@) - 1)]
    ELSE RTX_Connection(S, key)

---------------------------------------------------------------------------
(* RTX_Connection: commands *)

\* send as it would be if a second pre-connect command replaced the stored one
send_overwriting(S, i, a) ==
    LET c == S.active_cxn[i] IN
    IF c.ready
    THEN LET S1 == gateway_send(S, [cmd |-> a.cmd, id |-> i, args |-> a.args])
         IN  [S1 EXCEPT !.active_cxn[i] =
                 [@ EXCEPT !.response_rows = IF a.cmd \in {"request", "adviserequest"}
                                             THEN <<>> ELSE @,
                           !.ack_pending = a.exa, !.ack_callback = a.cba,
                           !.response_pending = a.exr, !.response_callback = a.cbr,
                           !.status_pending = a.exs, !.status_callback = a.cbs,
                           !.update_callback = a.cbu, !.update_handler = a.uhr],
                         !.ev.ret = None]
    ELSE IF c.on_connect_action # NoAction
         THEN [error_handler(S, "Failure: on_connect_action already exists")
                  EXCEPT !.active_cxn[i].on_connect_action = a, !.ev.ret = "False"]
         ELSE [S EXCEPT !.active_cxn[i].on_connect_action = a, !.ev.ret = "True"]

send(S, i, a) ==
    LET c == S.active_cxn[i] IN
    IF c.ready
    THEN LET S1 == gateway_send(S, [cmd |-> a.cmd, id |-> i, args |-> a.args])
         IN  [S1 EXCEPT !.active_cxn[i] =
                 [@ EXCEPT !.response_rows = IF a.cmd \in {"request", "adviserequest"}
                                             THEN <<>> ELSE @,
                           !.ack_pending = a.exa, !.ack_callback = a.cba,
                           !.response_pending = a.exr, !.response_callback = a.cbr,
                           !.status_pending = a.exs, !.status_callback = a.cbs,
                           !.update_callback = a.cbu, !.update_handler = a.uhr],
                         !.ev.ret = None]
    ELSE IF c.on_connect_action # NoAction
         THEN [error_handler(S, "Failure: on_connect_action already exists")
                  EXCEPT !.ev.ret = "False"]
         ELSE [S EXCEPT !.active_cxn[i].on_connect_action = a, !.ev.ret = "True"]

request(S, i, tql, callback) ==
    send(S, i, [cmd |-> "request", args |-> tql, exa |-> "REQUEST_OK", cba |-> NoCb,
                exr |-> TRUE, cbr |-> callback, exs |-> None, cbs |-> NoCb,
                cbu |-> NoCb, uhr |-> None])

advise(S, i, tql, handler) ==
    send(S, i, [cmd |-> "advise", args |-> tql, exa |-> "ADVISE_OK", cba |-> NoCb,
                exr |-> FALSE, cbr |-> NoCb, exs |-> "OnOtherAck", cbs |-> NoCb,
                cbu |-> NoCb, uhr |-> handler])

poke(S, i, tql, ack_callback, callback) ==
    send(S, i, [cmd |-> "poke", args |-> tql, exa |-> "POKE_OK", cba |-> ack_callback,
                exr |-> FALSE, cbr |-> NoCb, exs |-> "OnOtherAck", cbs |-> callback,
                cbu |-> NoCb, uhr |-> None])

---------------------------------------------------------------------------
(* RTX_Connection: inbound frames *)

AckFrame(data) == [type |-> "ack", data |-> data, msg |-> None, status |-> None,
                   row |-> EmptyMap, complete |-> FALSE]
StatusFrame(msg, status) == [type |-> "status", data |-> None, msg |-> msg, status |-> status,
                             row |-> EmptyMap, complete |-> FALSE]
ResponseFrame(row, done) == [type |-> "response", data |-> None, msg |-> None, status |-> None,
                             row |-> row, complete |-> done]
UpdateFrame(row) == [type |-> "update", data |-> None, msg |-> None, status |-> None,
                     row |-> row, complete |-> FALSE]

handle_response_failure(S, i) ==
    IF S.active_cxn[i].response_callback # NoCb
    THEN complete(S, S.active_cxn[i].response_callback, NullResult)
    ELSE S

\* handle_ack, the end: the ack callback of a poke
AckCallback(S, i, data) ==
    IF S.active_cxn[i].ack_callback # NoCb
    THEN [complete(S, S.active_cxn[i].ack_callback, Result("ack", data, None, <<>>))
             EXCEPT !.active_cxn[i].ack_callback = NoCb]
    ELSE S

handle_ack(S, i, f) ==
    IF S.active_cxn[i].ack_pending # None
    THEN AckCallback(IF f.data = S.active_cxn[i].ack_pending
                     THEN [S EXCEPT !.active_cxn[i].ack_pending = None]
                     ELSE handle_response_failure(error_handler(S, "Ack Mismatch"), i),
                     i, f.data)
    ELSE error_handler(S, "Ack Unexpected")

\* handle_response as it would be if the row of the terminating frame were left out
handle_response_dropping(S, i, f) ==
    LET c == S.active_cxn[i] IN
    IF c.response_pending
    THEN IF f.complete
         THEN LET S2 == IF c.response_callback # NoCb
                        THEN [complete(S, c.response_callback,
                                       Result("rows", None, None, c.response_rows))
                                 EXCEPT !.active_cxn[i].response_callback = NoCb]
                        ELSE S
              IN  [S2 EXCEPT !.active_cxn[i].response_pending = FALSE,
                             !.active_cxn[i].response_rows = <<>>]
         ELSE [S EXCEPT !.active_cxn[i].response_rows = Append(@, f.row)]
    ELSE error_handler(S, "Response Unexpected")

handle_response(S, i, f) ==
    LET c == S.active_cxn[i] IN
    IF c.response_pending
    THEN LET S1 == [S EXCEPT !.active_cxn[i].response_rows = Append(@, f.row)]
         IN  IF f.complete
             THEN LET S2 == IF c.response_callback # NoCb
                            THEN [complete(S1, c.response_callback,
                                           Result("rows", None, None, S1.active_cxn[i].response_rows))
                                     EXCEPT !.active_cxn[i].response_callback = NoCb]
                            ELSE S1
                  IN  [S2 EXCEPT !.active_cxn[i].response_pending = FALSE,
                                 !.active_cxn[i].response_rows = <<>>]
             ELSE S1
    ELSE error_handler(S, "Response Unexpected")

\* API_Symbol: ticks.  Prices are held in cents; a float of Python is printed by '%s'
\* with the shortest digits that give it back ('10.0', '10.02').

\* field values of the upstream that start with 'Error '
ErrorValues == {"Error 2", "Error 17"}

\* float(data) rounded to 2 places, and int(data), of the literals the upstream sends
TqlFloat == ("10.00" :> 1000) @@ ("10.01" :> 1001) @@ ("10.02" :> 1002)
TqlInt == ("5" :> 5) @@ ("6" :> 6) @@ ("7" :> 7) @@ ("100" :> 100)

parse_tql_field(data) == IF data \in ErrorValues THEN None ELSE data

parse_tql_float(data) == IF parse_tql_field(data) \in {None, ""} THEN 0 ELSE TqlFloat[data]

parse_tql_int(data) == IF parse_tql_field(data) \in {None, ""} THEN 0 ELSE TqlInt[data]

\* '%s' % price
FloatStr(c) ==
    ToString(c \div 100) \o "."
        \o (IF c % 10 = 0 THEN ToString((c % 100) \div 10)
            ELSE IF c % 100 < 10 THEN "0" \o ToString(c % 100) ELSE ToString(c % 100))

\* the bound methods parse_fields and init_handler of the API_Symbol k
ParseFieldsOf(k) == "parse_fields:" \o ToString(k)
InitHandlerOf(k) == "init_handler:" \o ToString(k)

\* the fields parse_fields reads, in its order
ParsedFields ==
    <<"TRDPRC_1", "HIGH_1", "LOW_1", "TRDVOL_1", "ACVOL_1", "BID", "BIDSIZE", "ASK", "ASKSIZE">>

\* parse_fields parses the field l of the row: a size only next to a non-zero price
FieldParsed(data, l) ==
    CASE l = "BIDSIZE" -> /\ HasField(data, "BID") /\ HasField(data, "BIDSIZE")
                          /\ parse_tql_float(data["BID"]) # 0
      [] l = "ASKSIZE" -> /\ HasField(data, "ASK") /\ HasField(data, "ASKSIZE")
                          /\ parse_tql_float(data["ASK"]) # 0
      [] OTHER -> HasField(data, l)

\* parse_tql_field: the alert of every field parsed whose value is an error
RECURSIVE ParseAlerts(_, _, _)
ParseAlerts(S, data, ls) ==
    IF ls = <<>> THEN S
    ELSE ParseAlerts(IF FieldParsed(data, Head(ls)) /\ data[Head(ls)] \in ErrorValues
                     THEN error_handler(S, "Field Parse Failure: " \o Head(ls))
                     ELSE S,
                     data, Tail(ls))

\* parse_fields: the attributes of the API_Symbol o after the row; the sizes go to the
\* attributes bidsize and asksize
Parsed(o, data) ==
    [o EXCEPT
       !.last = IF HasField(data, "TRDPRC_1") THEN parse_tql_float(data["TRDPRC_1"]) ELSE @,
       !.high = IF HasField(data, "HIGH_1") THEN parse_tql_float(data["HIGH_1"]) ELSE @,
       !.low = IF HasField(data, "LOW_1") THEN parse_tql_float(data["LOW_1"]) ELSE @,
       !.size = IF HasField(data, "TRDVOL_1") THEN parse_tql_int(data["TRDVOL_1"]) ELSE @,
       !.volume = IF HasField(data, "ACVOL_1") THEN parse_tql_int(data["ACVOL_1"]) ELSE @,
       !.bid = IF HasField(data, "BID") THEN parse_tql_float(data["BID"]) ELSE @,
       !.bidsize = IF HasField(data, "BID")
                   THEN (IF FieldParsed(data, "BIDSIZE") THEN parse_tql_int(data["BIDSIZE"])
                         ELSE 0)
                   ELSE @,
       !.ask = IF HasField(data, "ASK") THEN parse_tql_float(data["ASK"]) ELSE @,
       !.asksize = IF HasField(data, "ASK")
                   THEN (IF FieldParsed(data, "ASKSIZE") THEN parse_tql_int(data["ASKSIZE"])
                         ELSE 0)
                   ELSE @]

trade_flag(data) ==
    \E l \in {"TRDPRC_1", "HIGH_1", "LOW_1", "TRDVOL_1", "ACVOL_1"} : HasField(data, l)

quote_flag(data) == HasField(data, "BID") \/ HasField(data, "ASK")

\* 'quote.%s:%s %d %s %d' % (symbol, bid, bid_size, ask, ask_size)
QuoteString(o) ==
    "quote." \o o.symbol \o ":" \o FloatStr(o.bid) \o " " \o ToString(o.bid_size)
        \o " " \o FloatStr(o.ask) \o " " \o ToString(o.ask_size)

\* 'trade.%s:%s %d %d' % (symbol, last, size, volume)
TradeString(o) ==
    "trade." \o o.symbol \o ":" \o FloatStr(o.last) \o " " \o ToString(o.size)
        \o " " \o ToString(o.volume)

\* update_quote as it would be without the comparison with last_quote
update_quote_always(S, k) ==
    WriteAllClients([S EXCEPT !.symbol_objs[k].last_quote = QuoteString(S.symbol_objs[k])],
                    QuoteString(S.symbol_objs[k]))

update_quote(S, k) ==
    IF QuoteString(S.symbol_objs[k]) # S.symbol_objs[k].last_quote
    THEN WriteAllClients([S EXCEPT !.symbol_objs[k].last_quote = QuoteString(S.symbol_objs[k])],
                         QuoteString(S.symbol_objs[k]))
    ELSE S

update_trade(S, k) == WriteAllClients(S, TradeString(S.symbol_objs[k]))

\* parse_fields, the end: the events of the tick
TradeTick(S, k, data) == IF trade_flag(data) THEN update_trade(S, k) ELSE S

Ticker(S, k, data) ==
    IF S.enable_ticker
    THEN TradeTick(IF quote_flag(data) THEN update_quote(S, k) ELSE S, k, data)
    ELSE S

\* parse_fields of the API_Symbol k with the row data (EmptyMap for None); ev.arg and
\* ev.row name the handler and its row
parse_fields(S, k, data) ==
    IF data = EmptyMap
    THEN force_disconnect(S, "LIVEQUOTE Advise has been terminated by API")
    ELSE Ticker(ParseAlerts([S EXCEPT !.symbol_objs[k] = Parsed(@, data),
                                      !.ev.arg = ParseFieldsOf(k), !.ev.row = data],
                            data, ParsedFields),
                k, data)

\* the advise handler of a channel, called with a row (EmptyMap for None)
UpdateHandler(S, i, row) ==
    CASE S.active_cxn[i].update_handler = "handle_order_update" -> handle_order_update(S, row)
      [] \E k \in DOMAIN S.symbol_objs : S.active_cxn[i].update_handler = ParseFieldsOf(k) ->
            parse_fields(S, CHOOSE k \in DOMAIN S.symbol_objs :
                                S.active_cxn[i].update_handler = ParseFieldsOf(k), row)
      [] OTHER -> S

\* handle_status on OnInitAck as it would be if the replayed command stayed stored
OnInitAck_keeping(S, i, action) ==
    IF action # NoAction
    THEN send([S EXCEPT !.active_cxn[i].connected = TRUE, !.active_cxn[i].ready = TRUE],
              i, action)
    ELSE [S EXCEPT !.active_cxn[i].connected = TRUE]

\* handle_status on OnInitAck: the channel is connected and the stored command replayed
OnInitAck(S, i, action) ==
    IF action # NoAction
    THEN [send([S EXCEPT !.active_cxn[i].connected = TRUE, !.active_cxn[i].ready = TRUE],
               i, action)
            EXCEPT !.active_cxn[i].on_connect_action = NoAction]
    ELSE [S EXCEPT !.active_cxn[i].connected = TRUE]

\* handle_status, the end of the success branch: the status callback of a poke
StatusCallback(S, i, f) ==
    IF S.active_cxn[i].status_callback # NoCb
    THEN [complete(S, S.active_cxn[i].status_callback, Result("status", f.msg, f.status, <<>>))
             EXCEPT !.active_cxn[i].status_callback = NoCb]
    ELSE S

\* handle_status, the expected status arrived; action is the stored command
StatusExpected(S, i, f, action) ==
    IF f.status = "1"
    THEN StatusCallback(IF f.msg = "OnInitAck" THEN OnInitAck(S, i, action) ELSE S, i, f)
    ELSE error_handler(S, "Status Error")

\* handle_status as it would be if an OnTerminate were not passed to the advise handler
StatusUnexpected_ignoring(S, i, f, handler) == handle_response_failure(S, i)

\* handle_status, any other status: an OnTerminate goes to the advise handler
StatusUnexpected(S, i, f, handler) ==
    handle_response_failure(IF handler # None /\ f.msg = "OnTerminate"
                            THEN UpdateHandler(S, i, EmptyMap)
                            ELSE S, i)

handle_status(S, i, f) ==
    IF S.active_cxn[i].status_pending # None /\ f.msg = S.active_cxn[i].status_pending
    THEN StatusExpected(IF S.active_cxn[i].update_handler = None
                        THEN [S EXCEPT !.active_cxn[i].status_pending = None]
                        ELSE S,
                        i, f, S.active_cxn[i].on_connect_action)
    ELSE StatusUnexpected(error_handler(S, "Status Unexpected"), i, f,
                          S.active_cxn[i].update_handler)

handle_update(S, i, f) ==
    LET c == S.active_cxn[i] IN
    IF c.update_callback # NoCb
    THEN [complete(S, c.update_callback, Result("rows", None, None, <<f.row>>))
             EXCEPT !.active_cxn[i].update_callback = NoCb]
    ELSE IF c.update_handler # None
         THEN UpdateHandler(S, i, f.row)
         ELSE error_handler(S, "Update Unexpected")

\* receive, the end: update_ready, unless the handler raised
Received(S, i) == IF S.ev.raised THEN S ELSE update_ready(S, i)

receive(S, i, f) ==
    Received(CASE f.type = "ack" -> handle_ack(S, i, f)
                   [] f.type = "response" -> handle_response(S, i, f)
                   [] f.type = "status" -> handle_status(S, i, f)
                   [] f.type = "update" -> handle_update(S, i, f)
                   [] OTHER -> error_handler(S, "Message Type Unexpected"), i)

---------------------------------------------------------------------------
(* RTX: accounts *)

DISCONNECT_SECONDS == 30

\* ENABLE_SECONDS_TICK of the configuration
enable_seconds_tick == FALSE

\* the account names the upstream knows, in sort order
AccountOrder == <<"A.B.C.D", "E.F.G.H">>

\* sorted(set(make_account(row) for row in rows))
SortedAccounts(rows) ==
    SelectSeq(AccountOrder, LAMBDA a : \E k \in DOMAIN rows : make_account(rows[k]) = a)

verify_account(S, account_name) == account_name \in Range(S.accounts)

process_set_account(S, account_name, c) ==
    LET ret == verify_account(S, account_name)
        S1 == IF ret
              THEN WriteAllClients([S EXCEPT !.current_account = account_name],
                                   "current-account: " \o account_name)
              ELSE error_handler(S, "set_account(): account not found")
    IN  complete(S1, c, Value(IF ret THEN "true" ELSE "false"))

RECURSIVE CompleteAll(_, _, _)
CompleteAll(S, cbs, result) ==
    IF cbs = <<>> THEN S
    ELSE CompleteAll(complete(S, Head(cbs), result), Tail(cbs), result)

RECURSIVE ProcessDeferred(_, _)
ProcessDeferred(S, cbs) ==
    IF cbs = <<>> THEN S
    ELSE ProcessDeferred(process_set_account(S, S.callbacks[Head(cbs)].id, Head(cbs)), Tail(cbs))

\* handle_accounts: the waiting request_accounts callers get the list
AnswerAccountRequests(S) ==
    CompleteAll(S, S.cblists["account_request_callbacks"],
                Result("accounts", None, None, S.accounts))

\* handle_accounts: the deferred set_account calls are processed
AnswerSetAccounts(S) == ProcessDeferred(S, S.cblists["set_account_callbacks"])

\* the fields make_account reads
AccountKeys == {"BANK", "BRANCH", "CUSTOMER", "DEPOSIT"}

\* handle_accounts of a list of rows that all name an account
AccountsListed(S, ret) ==
    AnswerSetAccounts(AnswerAccountRequests(update_connection_status(
        WriteAllClients([S EXCEPT !.accounts = SortedAccounts(ret.rows),
                                  !.account_request_pending = FALSE], "accounts"),
        "Up")))

\* handle_accounts as it would be if a list with a null or empty row counted as no data
handle_accounts_checking(S, ret) ==
    IF ret.kind = "rows" /\ ret.rows # <<>>
    THEN IF \E k \in DOMAIN ret.rows : ~(AccountKeys \subseteq DOMAIN ret.rows[k])
         THEN force_disconnect(S, "Initial account query failed")
         ELSE AccountsListed(S, ret)
    ELSE force_disconnect(S, "Initial account query failed")

\* a null result is no data; a list is, and make_account raises on a row that is null
\* or lacks a field
handle_accounts(S, ret) ==
    IF ret.kind = "rows" /\ ret.rows # <<>>
    THEN IF \E k \in DOMAIN ret.rows : ~(AccountKeys \subseteq DOMAIN ret.rows[k])
         THEN Raise(S)
         ELSE AccountsListed(S, ret)
    ELSE force_disconnect(S, "Initial account query failed")

set_account(S, account_name) ==
    LET c == NextCb(S)
        S1 == API_Callback(S, account_name, "set-account", Client, 0)
    IN  IF S1.accounts # <<>>
        THEN process_set_account(S1, account_name, c)
        ELSE IF S1.account_request_pending
             THEN [S1 EXCEPT !.cblists["set_account_callbacks"] = Append(@, c)]
             ELSE complete(error_handler(S1, "set_account; no data, but no account_request_pending"),
                           c, NullResult)

request_accounts(S) ==
    LET c == NextCb(S)
        S1 == API_Callback(S, "0", "request-accounts", Client, callback_timeout.ACCOUNT)
    IN  IF S1.accounts # <<>>
        THEN complete(S1, c, Result("accounts", None, None, S1.accounts))
        ELSE IF S1.account_request_pending
             THEN [S1 EXCEPT !.cblists["account_request_callbacks"] = Append(@, c)]
             ELSE complete(S1, c, NullResult)

---------------------------------------------------------------------------
(* RTX: requests *)

\* a request on the channel i with a new callback, which joins the list cb_list
RequestOn(S, i, id, tql, label, callable, cb_list, timeout) ==
    [request(API_Callback(S, id, label, callable, timeout), i, tql, NextCb(S))
        EXCEPT !.cblists[cb_list] = Append(@, NextCb(S))]

rtx_request(S, key, tql, label, callable, cb_list, timeout) ==
    RequestOn(cxn_get(S, key), CxnGetId(S, key), "cxn", tql, label, callable, cb_list, timeout)

request_account_data(S, account) ==
    RequestOn(cxn_get(S, "ACCOUNT_GATEWAY;ORDER"), CxnGetId(S, "ACCOUNT_GATEWAY;ORDER"), "0",
              "DEPOSIT;*;" \o account, "account_data", Client, "accountdata_callbacks",
              callback_timeout.ACCOUNT)

\* cxn_get(key).advise(tql, handler)
AdviseOn(S, key, tql, handler) == advise(cxn_get(S, key), CxnGetId(S, key), tql, handler)

\* cxn_get(key).poke(...)
PokeOn(S, key, tql, ack_callback, callback) ==
    poke(cxn_get(S, key), CxnGetId(S, key), tql, ack_callback, callback)

setup_local_queries(S) ==
    rtx_request(AdviseOn(rtx_request(S, "ACCOUNT_GATEWAY;ORDER", "ACCOUNT;*;", "accounts",
                                     Callable("handle_accounts",
                                              "handle_initial_account_failure"),
                                     "accountdata_callbacks", callback_timeout.ACCOUNT),
                         "ACCOUNT_GATEWAY;ORDER", "ORDERS;*;", "handle_order_update"),
                "ACCOUNT_GATEWAY;ORDER", "ORDERS;*;", "orders",
                Callable("handle_initial_orders_response", None),
                "openorder_callbacks", callback_timeout.ORDERSTATUS)

handle_system_message(S, msg) ==
    IF msg = "startup"
    THEN setup_local_queries(
             update_connection_status([S EXCEPT !.connected = TRUE, !.accounts = <<>>], "Startup"))
    ELSE error_handler(S, "Unknown system message")

gateway_connect(S, protocol) ==
    IF protocol
    THEN update_connection_status([S EXCEPT !.gateway_sender = TRUE], "Connecting")
    ELSE error_handler(
             update_connection_status(
                 [S EXCEPT !.gateway_sender = FALSE, !.connected = FALSE,
                           !.seconds_disconnected = 0, !.account_request_pending = FALSE,
                           !.accounts = <<>>], "Disconnected"),
             "error: API Disconnected")

gateway_receive(S, i, f) ==
    IF i \in DOMAIN S.active_cxn
    THEN receive(S, i, f)
    ELSE error_handler(S, "Message Received on Unknown connection")

EverySecondBody(S) ==
    LET S1 == IF S.connected
              THEN (IF enable_seconds_tick
                    THEN rtx_request(S, "TA_SRV;LIVEQUOTE", "LIVEQUOTE;$TIME", "tick",
                                     Callable("handle_time", "handle_time_error"),
                                     "timer_callbacks", callback_timeout.TIMER)
                    ELSE S)
              ELSE LET T == [S EXCEPT !.seconds_disconnected = @ + 1]
                   IN  IF T.seconds_disconnected > DISCONNECT_SECONDS
                       THEN force_disconnect(T, "Realtick Gateway connection timed out")
                       ELSE T
    IN  CheckPendingResults(S1)

---------------------------------------------------------------------------
(* RTX: submit and cancel *)

RTX_EXCHANGE == "NYS"

\* the route names set_order_route accepts (a string; it becomes {route: None})
ValidRoutes == {"DEMO"}

set_order_route(S, route) ==
    IF route \in ValidRoutes
    THEN [S EXCEPT !.order_route = route]
    ELSE error_handler(S, "Cannot set order route")

\* account.split('.')[:4]
AccountFields(account) ==
    CASE account = "A.B.C.D" -> [BANK |-> "A", BRANCH |-> "B", CUSTOMER |-> "C", DEPOSIT |-> "D"]
      [] OTHER -> [BANK |-> "E", BRANCH |-> "F", CUSTOMER |-> "G", DEPOSIT |-> "H"]

Abs(n) == IF n < 0 THEN -n ELSE n

\* the field map of a submission, built up to the price fields
OrderFields(S, a) ==
    LET o1 == Merge(AccountFields(a.account),
                    [BUYORSELL |-> IF a.quantity > 0 THEN "Buy" ELSE "Sell",
                     GOOD_UNTIL |-> "DAY", EXIT_VEHICLE |-> S.order_route,
                     DISP_NAME |-> a.symbol, STYP |-> "1", EXCHANGE |-> RTX_EXCHANGE])
    IN  CASE a.order_type = "market" -> Put(o1, "PRICE_TYPE", "Market")
          [] a.order_type = "limit" -> Put(Put(o1, "PRICE_TYPE", "AsEntered"), "PRICE", a.price)
          [] a.order_type = "stop" -> Put(Put(o1, "PRICE_TYPE", "Stop"), "STOP_PRICE", a.stop_price)
          [] OTHER -> o1

\* the complete field map of a submission
SubmitFields(R, a) ==
    LET o1 == Merge(OrderFields(R, a),
                    [VOLUME_TYPE |-> "AsEntered", VOLUME |-> ToString(Abs(a.quantity))])
        o2 == IF a.staged # None THEN Put(o1, "ORDER_TAG", a.staged) ELSE o1
        o3 == IF a.oid # None THEN Put(o2, "REFERS_TO_ID", a.oid)
              ELSE Put(o2, "CLIENT_ORDER_ID", a.uuid)
    IN  Put(o3, "TYPE", "UserSubmit" \o (IF a.staged # None THEN "Staged" ELSE "")
                            \o (IF a.oid # None THEN "Change" ELSE "Order"))

\* a new API_Order, the last of order_objs, enters pending_orders
PendNew(S, oid) == [S EXCEPT !.pending_orders = Put(@, oid, Len(S.order_objs))]

\* submit_order: the order enters pending_orders with the caller's callback
PendOrder(S, oid, o, cb) ==
    IF HasField(S.orders, oid)
    THEN [S EXCEPT !.pending_orders = Put(@, oid, S.orders[oid]),
                   !.order_objs[S.orders[oid]].callback = cb]
    ELSE PendNew(API_Order(S, oid, o, cb), oid)

\* submit_order, the end: the poke with its two local callbacks
SubmitPoke(S, oid, type, cb) ==
    PokeOn(API_Callback(API_Callback(S, oid, "order-ack",
                                     Callable("order_submit_ack_callback", None),
                                     callback_timeout.ORDER),
                        oid, "order", Callable("order_submit_callback", None),
                        callback_timeout.ORDER),
           "ACCOUNT_GATEWAY;ORDER", "ORDERS;*;!" \o type \o ":" \o oid, cb + 1, cb + 2)

\* submit_order once the account and the route are accepted; oid is the id of the
\* order changed, else the new id
Submit(R, o, oid, cb) ==
    SubmitPoke(PendOrder([API_Callback(R, oid, "order", Client, callback_timeout.ORDER)
                             EXCEPT !.cblists["order_callbacks"] = Append(@, cb)],
                         oid, o, cb),
               oid, o["TYPE"], cb)

\* submit_order after set_order_route
SubmitRouted(R, a) ==
    IF R.order_route = None
    THEN complete(API_Callback(R, "0", "submit-order", Client, 0),
                  NextCb(R), Result("error", "undefined order route", None, <<>>))
    ELSE IF a.order_type \notin {"market", "limit", "stop"}
         THEN [error_handler(R, "unknown order type") EXCEPT !.ev.raised = TRUE]
         ELSE Submit(R, SubmitFields(R, a), IF a.oid # None THEN a.oid ELSE a.uuid, NextCb(R))

\* submit_order as it would be if the callback were registered before the account
\* is verified
submit_order_registering(S, a) ==
    IF ~verify_account(S, a.account)
    THEN [complete(API_Callback(error_handler(S, "set_account(): account not found"),
                                "0", "submit-order", Client, 0),
                   NextCb(S), Result("error", "account unknown", None, <<>>))
             EXCEPT !.cblists["order_callbacks"] = Append(@, NextCb(S))]
    ELSE SubmitRouted(set_order_route(S, a.route), a)

\* a: account, route, order_type, price, stop_price, symbol, quantity, staged, oid (None
\* for a new order), uuid (the id create_order_id returns)
\* handle_ticket_update / handle_ticket_response: the pending ticket a row names by its
\* CLIENT_ORDER_ID becomes a ticket. No advise names handle_ticket_update as its update
\* handler: the rows of the ORDERS advise go to handle_order_update.
handle_ticket_response(S, msg) ==
    LET tid == Get(msg, "CLIENT_ORDER_ID", None) IN
    IF S.pending_tickets # EmptyMap /\ HasField(S.pending_tickets, tid)
    THEN [initial_update(S, S.pending_tickets[tid], msg)
             EXCEPT !.tickets = Put(@, tid, S.pending_tickets[tid]),
                    !.pending_tickets = Del(@, tid)]
    ELSE S

\* the field map of a staged order ticket
TicketFields(account, tid) ==
    Merge(AccountFields(account),
          [CLIENT_ORDER_ID |-> tid, DISP_NAME |-> "N/A", STYP |-> "1",
           EXIT_VEHICLE |-> "NONE", TYPE |-> "UserSubmitStagedOrder"])

\* create_staged_order_ticket, the end: the poke with its two local callbacks
TicketPoke(S, tid, cb) ==
    PokeOn(API_Callback(API_Callback(S, tid, "ticket-ack",
                                     Callable("ticket_submit_ack_callback", None),
                                     callback_timeout.ORDER),
                        tid, "ticket", Callable("ticket_submit_callback", None),
                        callback_timeout.ORDER),
           "ACCOUNT_GATEWAY;ORDER", "ORDERS;*;!UserSubmitStagedOrder:" \o tid, cb + 1, cb + 2)

\* create_staged_order_ticket once the account is accepted: the ticket enters
\* pending_tickets with the caller's callback cb
StageTicket(S, account, tid, cb) ==
    TicketPoke([API_Order([API_Callback(S, tid, "ticket", Client, callback_timeout.ORDER)
                              EXCEPT !.cblists["ticket_callbacks"] = Append(@, cb)],
                          tid, TicketFields(account, tid), cb)
                   EXCEPT !.pending_tickets = Put(@, tid, Len(S.order_objs) + 1)],
               tid, cb)

\* create_staged_order_ticket; create_order_id returns uuid
create_staged_order_ticket(S, account, uuid) ==
    IF ~verify_account(S, account)
    THEN complete(API_Callback(S, "0", "create-staged-order-ticket", Client, 0),
                  NextCb(S), Result("error", "account unknown", None, <<>>))
    ELSE StageTicket(S, account, "T-" \o uuid, NextCb(S))

submit_order(S, a) ==
    IF ~verify_account(S, a.account)
    THEN complete(API_Callback(error_handler(S, "set_account(): account not found"),
                               "0", "submit-order", Client, 0),
                  NextCb(S), Result("error", "account unknown", None, <<>>))
    ELSE SubmitRouted(set_order_route(S, a.route), a)

\* cancel_order as it would be if the callback of an unknown order were also
\* registered in cancel_callbacks
Cancel_registering(S, oid, cb) ==
    IF HasField(S.orders, oid)
    THEN IF ~HasField(S.order_objs[S.orders[oid]].fields, "status")
         THEN Raise(S)
         ELSE IF S.order_objs[S.orders[oid]].fields["status"] = "Canceled"
         THEN complete(S, cb, Result("error", "Already canceled.", None, <<>>))
         ELSE [PokeOn(S, "ACCOUNT_GATEWAY;ORDER", "ORDERS;*;!UserSubmitCancel:" \o oid, NoCb, cb)
                  EXCEPT !.cblists["cancel_callbacks"] = Append(@, cb)]
    ELSE [complete(S, cb, Result("error", "Order not found", None, <<>>))
             EXCEPT !.cblists["cancel_callbacks"] = Append(@, cb)]

\* cancel_order after its callback cb is made; fields['status'] of an order that
\* never got one is a KeyError
Cancel(S, oid, cb) ==
    IF HasField(S.orders, oid)
    THEN IF ~HasField(S.order_objs[S.orders[oid]].fields, "status")
         THEN Raise(S)
         ELSE IF S.order_objs[S.orders[oid]].fields["status"] = "Canceled"
         THEN complete(S, cb, Result("error", "Already canceled.", None, <<>>))
         ELSE [PokeOn(S, "ACCOUNT_GATEWAY;ORDER", "ORDERS;*;!UserSubmitCancel:" \o oid, NoCb, cb)
                  EXCEPT !.cblists["cancel_callbacks"] = Append(@, cb)]
    ELSE complete(S, cb, Result("error", "Order not found", None, <<>>))

cancel_order(S, oid) ==
    Cancel(API_Callback(S, oid, "cancel_order", Client, callback_timeout.ORDER), oid, NextCb(S))

---------------------------------------------------------------------------
(* API_Callback.complete *)

RECURSIVE HandleRows(_, _)
HandleRows(S, rows) ==
    IF rows = <<>> THEN S
    ELSE HandleRows(IF Head(rows) # EmptyMap THEN handle_order_response(S, Head(rows)) ELSE S,
                    Tail(rows))

RECURSIVE RenderAll(_, _)
RenderAll(S, oids) ==
    IF oids = {} THEN S
    ELSE LET k == CHOOSE x \in oids : TRUE
         IN  RenderAll(render(S, S.orders[k]), oids \ {k})

\* format_account_data
AccountData(results) ==
    IF results.rows = <<>> THEN results
    ELSE Result("row", None, None,
                <<IF HasField(results.rows[1], "EXCESS_EQ")
                  THEN Put(results.rows[1], "_cash", results.rows[1]["EXCESS_EQ"] \o ".0")
                  ELSE results.rows[1]>>)

\* format_orders, the end: every order of the book rendered, keyed by its id
RenderedOrders(S) ==
    [S |-> S,
     ret |-> Result("orders", None, None,
                    [k \in DOMAIN S.orders |-> S.order_objs[S.orders[k]].fields])]

RenderOrders(S) == RenderedOrders(RenderAll(S, DOMAIN S.orders))

\* format_results: the state after formatting (format_orders folds the rows into the
\* order book) and the value handed to the continuation
format_results(S, cb, results) ==
    CASE cb.label = "account_data" -> [S |-> S, ret |-> AccountData(results)]
      [] cb.label = "orders" -> RenderOrders(HandleRows(S, results.rows))
      [] OTHER -> [S |-> S, ret |-> results]

\* ENABLE_HIGH_LOW of the configuration
enable_high_low == FALSE

add_client(S, k, client) == [S EXCEPT !.symbol_objs[k].clients = @ \cup {client}]

del_client(S, k, client) == [S EXCEPT !.symbol_objs[k].clients = @ \ {client}]

\* if not ts.clients: del(self.symbols[symbol])
DropIfEmpty(S, symbol) ==
    IF S.symbol_objs[S.symbols[symbol]].clients = {}
    THEN [S EXCEPT !.symbols = Del(@, symbol)]
    ELSE S

\* symbol_disable as it would be if the symbol stayed in the table without clients
symbol_disable_keeping(S, symbol, client) ==
    IF HasField(S.symbols, symbol) THEN del_client(S, S.symbols[symbol], client) ELSE S

symbol_disable(S, symbol, client) ==
    IF HasField(S.symbols, symbol)
    THEN DropIfEmpty(del_client(S, S.symbols[symbol], client), symbol)
    ELSE S

\* close_client, the loop over the symbols of the table
RECURSIVE CloseIn(_, _, _)
CloseIn(S, client, names) ==
    IF names = {} THEN S
    ELSE CloseIn(IF client \in S.symbol_objs[S.symbols[CHOOSE n \in names : TRUE]].clients
                 THEN DropIfEmpty(del_client(S, S.symbols[CHOOSE n \in names : TRUE], client),
                                  CHOOSE n \in names : TRUE)
                 ELSE S,
                 client, names \ {CHOOSE n \in names : TRUE})

open_client(S, client) == [S EXCEPT !.clients = @ \cup {client}]

close_client(S, client) ==
    CloseIn([S EXCEPT !.clients = @ \ {client}], client, DOMAIN S.symbols)

\* list(symbol.clients)[0]: any client of the set, ev.client when it is one of them
FirstClient(S, k) ==
    IF S.ev.client \in S.symbol_objs[k].clients THEN S.ev.client
    ELSE CHOOSE c \in S.symbol_objs[k].clients : TRUE

\* symbol_init as it would be if a snapshot with SYMBOL_ERROR were accepted
InitFailed_accepting(S, k) == complete(S, S.symbol_objs[k].callback, Value("true"))

\* symbol_init of a snapshot with SYMBOL_ERROR (list(...)[0] of no client raises)
InitFailed(S, k) ==
    IF S.symbol_objs[k].clients = {}
    THEN Raise(S)
    ELSE complete(symbol_disable(S, S.symbol_objs[k].symbol, FirstClient(S, k)),
                  S.symbol_objs[k].callback, Value("false"))

symbol_init(S, k) ==
    IF HasField(S.symbol_objs[k].rawdata, "SYMBOL_ERROR")
    THEN InitFailed(S, k)
    ELSE complete(S, S.symbol_objs[k].callback, Value("true"))

\* the field list and the condition of the advise init_handler starts
AdviseTql(S, symbol) ==
    "LIVEQUOTE;TRDPRC_1,TRDVOL_1,ACVOL_1"
        \o (IF S.enable_ticker THEN ",BID,BIDSIZE,ASK,ASKSIZE" ELSE "")
        \o (IF enable_high_low THEN ",HIGH_1,LOW_1" ELSE "")
        \o ";DISP_NAME='" \o symbol \o "'"

\* init_handler, the end: the advise, when symbol_init returned true
StartAdvise(S, k) ==
    IF S.ev.raised \/ HasField(S.symbol_objs[k].rawdata, "SYMBOL_ERROR")
    THEN S
    ELSE [AdviseOn(S, "TA_SRV;LIVEQUOTE", AdviseTql(S, S.symbol_objs[k].symbol),
                   ParseFieldsOf(k))
             EXCEPT !.symbol_objs[k].cxn = CxnGetId(S, "TA_SRV;LIVEQUOTE")]

\* init_handler: rawdata is the row, its 'Error ' values blanked
StoreRaw(S, k, row) ==
    [S EXCEPT !.symbol_objs[k].rawdata =
                  [l \in DOMAIN row |-> IF row[l] \in ErrorValues THEN "" ELSE row[l]]]

\* init_handler of the API_Symbol k; data[0] of a null result or of a null row raises
init_handler(S, k, ret) ==
    IF ret.rows = <<>>
    THEN Raise(S)
    ELSE IF ret.rows[1] = EmptyMap
         THEN Raise(parse_fields(S, k, EmptyMap))
         ELSE StartAdvise(symbol_init(StoreRaw(parse_fields(S, k, ret.rows[1]), k, ret.rows[1]),
                                      k),
                          k)

\* API_Symbol.__init__: the attributes, the entry of the symbol table
NewSymbol(S, symbol, client_id, init_callback) ==
    [S EXCEPT !.symbol_objs =
                  Append(@, [symbol |-> symbol, clients |-> {client_id},
                             callback |-> init_callback, bid |-> 0, bid_size |-> 0, ask |-> 0,
                             ask_size |-> 0, bidsize |-> 0, asksize |-> 0, last |-> 0,
                             size |-> 0, volume |-> 0, high |-> 0, low |-> 0,
                             rawdata |-> EmptyMap, last_quote |-> "", cxn |-> 0]),
              !.symbols = Put(@, symbol, Len(S.symbol_objs) + 1)]

\* API_Symbol.__init__, the end: the request of the snapshot on the channel i
InitRequest(S, k, i) ==
    request(API_Callback([S EXCEPT !.symbol_objs[k].cxn = i], "cxn", "init_symbol",
                         Callable(InitHandlerOf(k), None), callback_timeout.ADDSYMBOL),
            i, "LIVEQUOTE;*;DISP_NAME='" \o S.symbol_objs[k].symbol \o "'", NextCb(S))

API_Symbol(S, symbol, client_id, init_callback) ==
    InitRequest(cxn_get(NewSymbol(S, symbol, client_id, init_callback), "TA_SRV;LIVEQUOTE"),
                Len(S.symbol_objs) + 1, CxnGetId(S, "TA_SRV;LIVEQUOTE"))

\* symbol_enable as it would be if the callback of a symbol already watched waited
\* in add_symbol_callbacks
symbol_enable_waiting(S, symbol, client) ==
    IF ~HasField(S.symbols, symbol)
    THEN [API_Symbol(API_Callback(S, symbol, "add-symbol", Client, callback_timeout.ADDSYMBOL),
                     symbol, client, NextCb(S))
             EXCEPT !.cblists["add_symbol_callbacks"] = Append(@, NextCb(S))]
    ELSE [API_Callback(add_client(S, S.symbols[symbol], client), symbol, "add-symbol",
                       Client, 0)
             EXCEPT !.cblists["add_symbol_callbacks"] = Append(@, NextCb(S))]

symbol_enable(S, symbol, client) ==
    IF ~HasField(S.symbols, symbol)
    THEN [API_Symbol(API_Callback(S, symbol, "add-symbol", Client, callback_timeout.ADDSYMBOL),
                     symbol, client, NextCb(S))
             EXCEPT !.cblists["add_symbol_callbacks"] = Append(@, NextCb(S))]
    ELSE complete(API_Callback(add_client(S, S.symbols[symbol], client), symbol, "add-symbol",
                               Client, 0),
                  NextCb(S), Value("true"))

\* callable.callback(ret)
Callback(S, callable, ret) ==
    CASE callable.callback = "handle_accounts" -> handle_accounts(S, ret)
      [] \E k \in DOMAIN S.symbol_objs : callable.callback = InitHandlerOf(k) ->
            init_handler(S, CHOOSE k \in DOMAIN S.symbol_objs :
                                callable.callback = InitHandlerOf(k), ret)
      [] OTHER -> S

\* complete, the end: callable = None and done = True, unless the continuation raised
Settle(S, c) ==
    IF S.ev.raised THEN S
    ELSE [S EXCEPT !.callbacks[c].callable = NoCallable, !.callbacks[c].done = TRUE]

\* the continuation of callback c is called with the formatted results F.ret
Fire(F, c, callable) ==
    Settle(Callback([F.S EXCEPT !.ev.fired = Append(@, [cb |-> c, how |-> "callback",
                                                         result |-> F.ret]),
                                !.callbacks[c].fired = @ + 1],
                    callable, F.ret),
           c)

\* complete as it would be without the done flag
complete_refiring(S, c, results) ==
    Fire(format_results(S, S.callbacks[c], results), c, S.callbacks[c].callable)

complete(S, c, results) ==
    IF ~S.callbacks[c].done
    THEN Fire(format_results(S, S.callbacks[c], results), c, S.callbacks[c].callable)
    ELSE error_handler(S, S.callbacks[c].label \o " completed after timeout")

---------------------------------------------------------------------------
(* Initial states *)

\* RTX.__init__
Constructed ==
    [active_cxn |-> <<>>, idle_cxn |-> [k \in Keys |-> <<>>], callbacks |-> <<>>,
     cblists |-> [n \in Range(ListNames) |-> <<>>], now |-> 0, gateway_sender |-> FALSE,
     connected |-> FALSE, connection_status |-> "Initializing", accounts |-> <<>>,
     account_request_pending |-> TRUE, current_account |-> "", order_objs |-> <<>>,
     orders |-> EmptyMap, pending_orders |-> EmptyMap, tickets |-> EmptyMap,
     pending_tickets |-> EmptyMap, seconds_disconnected |-> 0,
     order_route |-> "DEMO", clients |-> {}, symbol_objs |-> <<>>, symbols |-> EmptyMap,
     enable_ticker |-> TRUE, ticks_down |-> 0, wire |-> [i \in 1..MaxWire |-> NoWire],
     ev |-> NewEv("init")]

AccountRow == [BANK |-> "A", BRANCH |-> "B", CUSTOMER |-> "C", DEPOSIT |-> "D"]

RECURSIVE ReceiveAll(_, _, _)
ReceiveAll(S, i, frames) ==
    IF frames = <<>> THEN S ELSE ReceiveAll(receive(S, i, Head(frames)), i, Tail(frames))

\* The adapter from construction to Up: the upstream socket connects, the startup
\* frame arrives, the three startup queries are answered (one account, no orders)
\* and one sweep runs.
Started == handle_system_message(gateway_connect(Constructed, TRUE), "startup")

AccountsAnswered ==
    ReceiveAll(Started, 1, <<AckFrame("CONNECTION PENDING"), StatusFrame("OnInitAck", "1"),
                             AckFrame("REQUEST_OK"), ResponseFrame(AccountRow, TRUE)>>)

AdviseAnswered ==
    ReceiveAll(AccountsAnswered, 2,
               <<AckFrame("CONNECTION PENDING"), StatusFrame("OnInitAck", "1"),
                 AckFrame("ADVISE_OK"), StatusFrame("OnOtherAck", "1")>>)

OrdersAnswered ==
    ReceiveAll(AdviseAnswered, 3,
               <<AckFrame("CONNECTION PENDING"), StatusFrame("OnInitAck", "1"),
                 AckFrame("REQUEST_OK"), ResponseFrame(EmptyMap, TRUE)>>)

\* The callbacks of the two startup requests are done and unreferenced by then; the
\* upstream goes on publishing order rows on the advise channel.
UpState ==
    [CheckPendingResults(OrdersAnswered)
        EXCEPT !.callbacks = <<>>, !.ev = NewEv("init"),
               !.wire = [i \in 1..MaxWire |-> IF i = 2 THEN [NoWire EXCEPT !.adv = TRUE]
                                              ELSE NoWire]]

Init == Holds(Constructed)

InitUp == Holds(UpState)

---------------------------------------------------------------------------
(* Actions: one event-loop callback each *)

Running == ~ev.stopped

WithinCxn(S, n) ==
    /\ Len(S.active_cxn) <= n
    /\ Len(S.callbacks) <= MaxCb
    /\ Len(S.order_objs) <= MaxOrders
    /\ \A k \in Keys : Len(S.idle_cxn[k]) <= MaxIdle
    /\ \A i \in DOMAIN S.active_cxn : Len(S.active_cxn[i].response_rows) <= MaxRows
    /\ \A o \in DOMAIN S.order_objs : Len(S.order_objs[o].updates) <= MaxUpdates

Within(S) == WithinCxn(S, MaxCxn)

Step(S) == Within(S) /\ Commit(S)

\* the same, with room for one more channel
StepWide(S) == WithinCxn(S, MaxWire) /\ Commit(S)

\* RtxClient.connectionMade
GatewayConnect ==
    /\ Running /\ ~gateway_sender
    /\ Step(gateway_connect(Begin("gateway_connect"), TRUE))

\* the system frame of the upstream, once per connection
Startup ==
    /\ Running /\ gateway_sender /\ ~connected
    /\ Step(handle_system_message(Begin("system"), "startup"))

\* LoopingCall(EverySecond), one second later
EverySecond ==
    /\ Running /\ now < MaxTime
    /\ Step(EverySecondBody([Begin("EverySecond") EXCEPT !.now = @ + 1]))

AccountNames == {"A.B.C.D"}

SetAccount ==
    /\ Running
    /\ \E a \in AccountNames : Step(set_account(Begin("set_account"), a))

RequestAccounts ==
    /\ Running
    /\ Step(request_accounts(Begin("request_accounts")))

\* callbacks allocated and not yet completed or expired
Outstanding == {c \in DOMAIN callbacks : ~callbacks[c].done}

RequestAccountData ==
    /\ Running /\ Cardinality(Outstanding) < MaxPending
    /\ Step(request_account_data(Begin("request_account_data"), "A.B.C.D"))

\* the submissions of the downstream client; create_order_id returns "u1"
Submissions ==
    {[account |-> "A.B.C.D", route |-> "DEMO", order_type |-> "market", price |-> "0",
      stop_price |-> "0", symbol |-> "IBM", quantity |-> 1, staged |-> None, oid |-> None,
      uuid |-> "u1"]}

SubmitOrder ==
    /\ Running /\ connection_status = "Up"
    /\ \E a \in Submissions : Step(submit_order(Begin("submit_order"), a))

\* the order ids the downstream client cancels
CancelIds == {"O2"}

CancelOrder ==
    /\ Running /\ connection_status = "Up"
    /\ \E oid \in CancelIds : Step(cancel_order(Begin("cancel_order"), oid))

\* the rows of a reply to a DEPOSIT request
DataRows == {[EXCESS_EQ |-> "1"]}

\* an order row of the ORDERS table
OrderRow(oid, coid, status) ==
    LET r == [ORIGINAL_ORDER_ID |-> oid, ORDER_ID |-> oid, CURRENT_STATUS |-> status,
              TYPE |-> "UserSubmitOrder", DISP_NAME |-> "IBM",
              BANK |-> "A", BRANCH |-> "B", CUSTOMER |-> "C", DEPOSIT |-> "D"]
    IN  IF coid # None THEN Put(r, "CLIENT_ORDER_ID", coid) ELSE r

\* the rows the upstream publishes: the order this adapter submits (client id "u1"),
\* and an order of another client, with and without its client id
OrderRows ==
    {OrderRow("O1", "u1", st) : st \in {"PENDING", "LIVE"}}
    \cup {OrderRow("O2", "x9", "LIVE"), OrderRow("O2", None, "LIVE")}

\* frames the upstream owes channel i, each with what it owes afterwards
Owed(w) ==
    (IF w.acks # <<>> THEN {[f |-> AckFrame(Head(w.acks)), w |-> [w EXCEPT !.acks = Tail(@)]]}
     ELSE {})
    \cup (IF w.stats # <<>>
          THEN {[f |-> StatusFrame(Head(w.stats), "1"), w |-> [w EXCEPT !.stats = Tail(@)]]}
          ELSE {})
    \cup (IF w.reqs > 0
          THEN {[f |-> ResponseFrame(r, FALSE), w |-> w] : r \in DataRows}
               \cup {[f |-> ResponseFrame(r, TRUE), w |-> [w EXCEPT !.reqs = @ - 1]] : r \in DataRows}
          ELSE {})
    \cup (IF w.adv THEN {[f |-> UpdateFrame(r), w |-> w] : r \in OrderRows} ELSE {})

\* RtxClient.lineReceived with a frame the upstream owes
Deliver ==
    /\ Running /\ gateway_sender
    /\ \E i \in DOMAIN active_cxn : \E d \in Owed(wire[i]) :
          Step(gateway_receive([Begin("receive") EXCEPT !.wire[i] = d.w], i, d.f))

\* frames an upstream that does not keep to the protocol may send
AnyFrames ==
    {AckFrame(a) : a \in {"CONNECTION PENDING", "REQUEST_OK"}}
    \cup {StatusFrame("OnInitAck", "1"), StatusFrame("OnInitAck", "0"),
          StatusFrame("OnOtherAck", "1")}
    \cup {ResponseFrame(r, d) : r \in DataRows, d \in BOOLEAN}

\* RtxClient.lineReceived with any frame for any channel id
Receive ==
    /\ Running /\ gateway_sender
    /\ \E i \in 1..MaxCxn, f \in AnyFrames : Step(gateway_receive(Begin("receive"), i, f))

\* an uncaught exception ends what the model follows of a behaviour
Alive == Running /\ ~ev.raised

\* a change of the order oid, submitted by the downstream client
Changes_of(oid) ==
    {[account |-> "A.B.C.D", route |-> "DEMO", order_type |-> "market", price |-> "0",
      stop_price |-> "0", symbol |-> "IBM", quantity |-> 1, staged |-> None, oid |-> oid,
      uuid |-> None]}

\* the orders the downstream client changes
ChangeIds == {"O2"}

SubmitChange ==
    /\ Alive /\ connection_status = "Up"
    /\ \E oid \in ChangeIds : \E a \in Changes_of(oid) :
          Step(submit_order(Begin("submit_order"), a))

\* a row of the order O2 of another client: the row of the order itself or of a
\* sub-order (order_id; None for a row without ORDER_ID), with the volume traded
BookRow(order_id, status, type, traded) ==
    LET r == [ORIGINAL_ORDER_ID |-> "O2", CURRENT_STATUS |-> status, TYPE |-> type,
              DISP_NAME |-> "IBM", ORIGINAL_VOLUME |-> "100", VOLUME_TRADED |-> traded,
              BANK |-> "A", BRANCH |-> "B", CUSTOMER |-> "C", DEPOSIT |-> "D"]
    IN  IF order_id # None THEN Put(r, "ORDER_ID", order_id) ELSE r

BookRows ==
    {BookRow("O2", "LIVE", "UserSubmitOrder", "0"),
     BookRow("O2-1", "COMPLETED", "ExchangeTradeOrder", "100"),
     BookRow("O2-1", "COMPLETED", "ExchangeTradeOrder", "50"),
     BookRow("O2", "CANCELLED", "UserSubmitCancel", "0"),
     BookRow("O2", "COMPLETED", "UserSubmitCancel", "0"),
     BookRow(None, "LIVE", "UserSubmitOrder", "0")}

\* frames the upstream owes a channel, the updates being rows of the order O2
OwedBook(w) ==
    {d \in Owed(w) : d.f.type # "update"}
    \cup (IF w.adv THEN {[f |-> UpdateFrame(r), w |-> w] : r \in BookRows} ELSE {})

\* RtxClient.lineReceived with a frame the upstream owes
DeliverBook ==
    /\ Alive /\ gateway_sender
    /\ \E i \in DOMAIN active_cxn : \E d \in OwedBook(wire[i]) :
          Step(gateway_receive([Begin("receive") EXCEPT !.wire[i] = d.w], i, d.f))

CancelBook ==
    /\ Alive /\ connection_status = "Up"
    /\ \E oid \in CancelIds : Step(cancel_order(Begin("cancel_order"), oid))

\* submissions for an account the upstream listed and for one it did not
BookSubmissions ==
    {[a EXCEPT !.account = n] : a \in Submissions, n \in {"A.B.C.D", "E.F.G.H"}}

SubmitBook ==
    /\ Alive /\ connection_status = "Up"
    /\ \E a \in BookSubmissions :
          Step(submit_order([Begin("submit_order") EXCEPT !.ev.arg = a.account], a))

\* the adapter before startup, with an upstream that keeps to the protocol
Spec == Init /\ [][GatewayConnect \/ EverySecond \/ RequestAccountData \/ Deliver]_vars

\* the same, with an upstream that may send any frame at any time (no clock)
SpecFaults == Init /\ [][GatewayConnect \/ RequestAccountData \/ Receive]_vars

\* set_account and request_accounts while the account list is still awaited
SpecAccounts == Init /\ [][SetAccount \/ RequestAccounts \/ EverySecond]_vars

\* the adapter once it is Up, with an upstream that keeps to the protocol
SpecOrders == InitUp /\ [][SubmitOrder \/ CancelOrder \/ EverySecond \/ Deliver]_vars

Opt(f, k, v) == IF v = None THEN f ELSE Put(f, k, v)

\* the values of CURRENT_STATUS and TYPE the upstream uses, and one it does not
CurrentStatuses == {"PENDING", "LIVE", "COMPLETED", "CANCELLED", "DELETED", "HELD"}

OrderTypes ==
    {"UserSubmitOrder", "UserSubmitStagedOrder", "UserSubmitStatus", "ExchangeReportStatus",
     "UserSubmitCancel", "UserSubmitChange", "ExchangeAcceptOrder", "ExchangeTradeOrder",
     "ClerkReject", "ExchangeKillOrder", "UserSubmitTradeReport"}

\* the field maps of the order O2 as render finds them: each of CURRENT_STATUS, TYPE,
\* the volumes and the status of an earlier render present or not
RenderFields ==
    {Opt(Opt(Opt(Opt(Opt([ORIGINAL_ORDER_ID |-> "O2", ORDER_ID |-> "O2", DISP_NAME |-> "IBM",
                          BANK |-> "A", BRANCH |-> "B", CUSTOMER |-> "C", DEPOSIT |-> "D"],
                         "CURRENT_STATUS", cs), "TYPE", ty), "ORIGINAL_VOLUME", ov),
             "VOLUME_TRADED", vt), "status", st) :
        cs \in CurrentStatuses \cup {None}, ty \in OrderTypes \cup {None},
        ov \in {None, "100"}, vt \in {None, "50", "100"}, st \in {None, "Pending"}}

\* the order O2 as render finds it, without or with a fill among its updates
RenderInputs ==
    {[oid |-> "O2", fields |-> f, callback |-> NoCb, updates |-> u, suborders |-> EmptyMap] :
        f \in RenderFields,
        u \in {<<>>, <<[id |-> "O2-1", type |-> "ExchangeTradeOrder",
                        fields |-> [TYPE |-> "ExchangeTradeOrder"], time |-> 0]>>}}

InitRender ==
    \E ord \in RenderInputs :
        Holds([UpState EXCEPT !.order_objs = <<ord>>, !.orders = [k \in {"O2"} |-> 1]])

\* API_Order.render of the order O2
Render ==
    /\ Alive
    /\ Step(render(Begin("render"), 1))

\* render applied to every order state
SpecRender == InitRender /\ [][Render]_vars

\* the adapter once it is Up, a client changing an order of the book
SpecChange == InitUp /\ [][SubmitChange \/ Deliver]_vars

\* the adapter once it is Up, the upstream publishing the life of one order
SpecBook == InitUp /\ [][DeliverBook \/ CancelBook \/ SubmitBook]_vars

\* the route, order type and quantity arguments a client may pass: the configured route
\* name or no usable route, the four order types and another word, a sale, nothing, a buy
SubmitRoutes == {"DEMO", None}
SubmitTypes == {"market", "limit", "stop", "stoplimit", "trailing"}
SubmitQuantities == {-1, 0, 1}

AnySubmissions ==
    {[a EXCEPT !.route = r, !.order_type = t, !.quantity = q,
               !.price = "12.34", !.stop_price = "12.00"] :
        a \in Submissions, r \in SubmitRoutes, t \in SubmitTypes, q \in SubmitQuantities}

SubmitAny ==
    /\ Alive /\ connection_status = "Up"
    /\ \E a \in AnySubmissions :
          Step(submit_order([Begin("submit_order") EXCEPT !.ev.arg = a], a))

\* the adapter once it is Up, a client submitting orders of every kind
SpecSubmit == InitUp /\ [][SubmitAny \/ Deliver]_vars

\* the downstream clients and the symbols they watch
Clients == {"c1", "c2"}
SymbolNames == {"XYZ"}

CloseClient ==
    /\ Alive
    /\ \E c \in clients :
          Step(close_client([Begin("close_client") EXCEPT !.ev.client = c], c))

SymbolEnable ==
    /\ Alive
    /\ \E s \in SymbolNames : \E c \in clients :
          Step(symbol_enable([Begin("symbol_enable") EXCEPT !.ev.arg = s, !.ev.client = c],
                                   s, c))

SymbolDisable ==
    /\ Alive
    /\ \E s \in SymbolNames : \E c \in clients :
          Step(symbol_disable([Begin("symbol_disable")
                                        EXCEPT !.ev.arg = s, !.ev.client = c], s, c))

\* the snapshots of a LIVEQUOTE request: a known symbol, an unknown one
InitRows ==
    {[BID |-> "10.00", BIDSIZE |-> "5", ASK |-> "10.02", ASKSIZE |-> "7",
      TRDPRC_1 |-> "10.01", TRDVOL_1 |-> "100", ACVOL_1 |-> "100"],
     [SYMBOL_ERROR |-> "1"]}

\* the rows of a LIVEQUOTE advise
TickRows ==
    {[BID |-> "10.00", BIDSIZE |-> "5", ASK |-> "10.02", ASKSIZE |-> "7"],
     [BID |-> "10.00", BIDSIZE |-> "6"],
     [ASK |-> "10.02", ASKSIZE |-> "6"],
     [BID |-> "10.01", BIDSIZE |-> "5"],
     [BID |-> "Error 2", BIDSIZE |-> "5"],
     [TRDPRC_1 |-> "10.02", TRDVOL_1 |-> "100", ACVOL_1 |-> "100"],
     [BID |-> "10.00", BIDSIZE |-> "5", TRDVOL_1 |-> "7"]}

\* the frames the upstream owes a LIVEQUOTE channel, the ticks of an advise apart
OwedQuotes(w) ==
    (IF w.acks # <<>> THEN {[f |-> AckFrame(Head(w.acks)), w |-> [w EXCEPT !.acks = Tail(@)]]}
     ELSE {})
    \cup (IF w.stats # <<>>
          THEN {[f |-> StatusFrame(Head(w.stats), "1"), w |-> [w EXCEPT !.stats = Tail(@)]]}
          ELSE {})
    \cup (IF w.reqs > 0
          THEN {[f |-> ResponseFrame(r, TRUE), w |-> [w EXCEPT !.reqs = @ - 1]] : r \in InitRows}
          ELSE {})

\* RtxClient.lineReceived with a frame of a LIVEQUOTE channel; c is the client
\* list(clients)[0] yields, should the handler ask
DeliverQuote ==
    /\ Alive /\ gateway_sender
    /\ \E i \in DOMAIN active_cxn : \E d \in OwedQuotes(wire[i]) :
       \E c \in (IF d.f.type = "response" THEN Clients ELSE {None}) :
          Step(gateway_receive([Begin("receive") EXCEPT !.wire[i] = d.w, !.ev.client = c],
                                     i, d.f))

\* the upstream socket is connected and two clients are; the ticker is configured on
\* or off
Connected == open_client(open_client(gateway_connect(Constructed, TRUE), "c1"), "c2")

InitSymbols ==
    \E t \in BOOLEAN : Holds([Connected EXCEPT !.enable_ticker = t, !.ev = NewEv("init")])

\* RtxClient.lineReceived with a row of a LIVEQUOTE advise
DeliverTick ==
    /\ Alive /\ gateway_sender
    /\ \E i \in DOMAIN active_cxn : \E r \in TickRows :
          /\ wire[i].adv
          /\ Step(gateway_receive(Begin("receive"), i, UpdateFrame(r)))

\* The client c1 watches XYZ: the snapshot (with or without a quote) has arrived and
\* the advise is acknowledged.
Enabled(t) ==
    ReceiveAll(symbol_enable([Connected EXCEPT !.enable_ticker = t], "XYZ", "c1"), 1,
               <<AckFrame("CONNECTION PENDING"), StatusFrame("OnInitAck", "1"),
                 AckFrame("REQUEST_OK")>>)

Watching(t, row) ==
    [ReceiveAll(receive(Enabled(t), 1, ResponseFrame(row, TRUE)), 2,
                <<AckFrame("CONNECTION PENDING"), StatusFrame("OnInitAck", "1"),
                  AckFrame("ADVISE_OK"), StatusFrame("OnOtherAck", "1")>>)
        EXCEPT !.ev = NewEv("init"),
               !.wire = [i \in 1..MaxWire |-> IF i = 2 THEN [NoWire EXCEPT !.adv = TRUE]
                                              ELSE NoWire]]

InitTicks ==
    \E t \in BOOLEAN :
        \E row \in {r \in InitRows : ~HasField(r, "SYMBOL_ERROR")}
                    \cup {[TRDPRC_1 |-> "10.01", TRDVOL_1 |-> "100", ACVOL_1 |-> "100"]} :
            Holds(Watching(t, row))

\* the ticks of a watched symbol
SpecTicks == InitTicks /\ [][DeliverTick]_vars

\* clients watching symbols
SpecSymbols ==
    InitSymbols /\ [][CloseClient \/ SymbolEnable \/ SymbolDisable
                       \/ DeliverQuote \/ EverySecond]_vars

\* seconds of wall clock the watchdog is followed for
MaxWatch == 40

\* RtxClient.connectionMade
ConnectionMade ==
    /\ Alive /\ ~gateway_sender
    /\ Step(gateway_connect([Begin("gateway_connect") EXCEPT !.ticks_down = 0], TRUE))

\* what the upstream owes once the socket has closed: nothing, and the channels
\* opened so far are gone
Gone(cxns) ==
    [i \in 1..MaxWire |-> IF i \in DOMAIN cxns THEN [NoWire EXCEPT !.gone = TRUE] ELSE NoWire]

\* RtxClientFactory.clientConnectionLost: the socket closes
ConnectionLost ==
    /\ Alive /\ gateway_sender
    /\ Step(gateway_connect([Begin("connection_lost") EXCEPT !.wire = Gone(active_cxn)],
                            FALSE))

\* RtxClientFactory.clientConnectionFailed: an attempt to connect again fails
ConnectionFailed ==
    /\ Alive /\ ~gateway_sender
    /\ Step(gateway_connect(Begin("connection_failed"), FALSE))

\* LoopingCall(EverySecond), one second later; the history counts the tick when the
\* socket is down
WatchTick ==
    /\ Alive /\ now < MaxWatch
    /\ Step(EverySecondBody([Begin("EverySecond")
                                EXCEPT !.now = @ + 1,
                                       !.ticks_down = IF gateway_sender THEN 0 ELSE @ + 1]))

\* the upstream socket coming and going under the 1 Hz timer
SpecWatchdog ==
    Init /\ [][ConnectionMade \/ ConnectionLost \/ ConnectionFailed \/ Startup
                \/ WatchTick]_vars

\* the rows that answer a request of the startup: the accounts table holds one account
\* or none (a null row), the orders table holds no order
StartupRows(c) ==
    IF c # NoCb /\ callbacks[c].label = "accounts" THEN {AccountRow, EmptyMap} ELSE {EmptyMap}

\* the frames the upstream owes a channel of the startup queries
OwedStartup(w, c) ==
    (IF w.acks # <<>> THEN {[f |-> AckFrame(Head(w.acks)), w |-> [w EXCEPT !.acks = Tail(@)]]}
     ELSE {})
    \cup (IF w.stats # <<>>
          THEN {[f |-> StatusFrame(Head(w.stats), "1"), w |-> [w EXCEPT !.stats = Tail(@)]]}
          ELSE {})
    \cup (IF w.reqs > 0
          THEN {[f |-> ResponseFrame(r, TRUE), w |-> [w EXCEPT !.reqs = @ - 1]] :
                   r \in StartupRows(c)}
          ELSE {})

\* RtxClient.lineReceived with a frame of a startup query
DeliverStartup ==
    /\ Alive /\ gateway_sender
    /\ \E i \in DOMAIN active_cxn :
       \E d \in OwedStartup(wire[i], active_cxn[i].response_callback) :
          Step(gateway_receive([Begin("receive") EXCEPT !.wire[i] = d.w], i, d.f))

\* the adapter from construction through the startup queries
SpecStartup == Init /\ [][GatewayConnect \/ Startup \/ DeliverStartup \/ EverySecond]_vars

\* the upstream socket lost and connected again around the startup queries, with
\* downstream clients asking for accounts
SpecReconnect ==
    Init /\ [][ConnectionMade \/ ConnectionLost \/ Startup \/ SetAccount \/ RequestAccounts
                \/ RequestAccountData \/ DeliverStartup]_vars

\* the status frames the upstream sends on a channel with an active advise: sporadic
\* OnOtherAck, and OnTerminate when the advise ends
AdviseStatuses ==
    {StatusFrame("OnOtherAck", "1"), StatusFrame("OnOtherAck", "0"),
     StatusFrame("OnTerminate", "1")}

\* the frames the upstream may send a channel of the startup queries
OwedAdvise(w, c) ==
    OwedStartup(w, c)
    \cup (IF w.adv THEN {[f |-> s, w |-> w] : s \in AdviseStatuses} ELSE {})

\* RtxClient.lineReceived with a frame of a startup query or a status of the advise
DeliverAdvise ==
    /\ Alive /\ gateway_sender
    /\ \E i \in DOMAIN active_cxn :
       \E d \in OwedAdvise(wire[i], active_cxn[i].response_callback) :
          Step(gateway_receive([Begin("receive") EXCEPT !.wire[i] = d.w, !.ev.arg = d.f.msg],
                               i, d.f))

\* the startup queries and the life of the ORDERS advise
SpecTerminate == Init /\ [][GatewayConnect \/ Startup \/ DeliverAdvise]_vars

\* the rows of a LIVEQUOTE advise followed after a symbol is released: a quote, a trade
ReleaseRows ==
    {[BID |-> "10.01", BIDSIZE |-> "5"],
     [TRDPRC_1 |-> "10.02", TRDVOL_1 |-> "100", ACVOL_1 |-> "100"]}

\* RtxClient.lineReceived with a row of a LIVEQUOTE advise
DeliverRelease ==
    /\ Alive /\ gateway_sender
    /\ \E i \in DOMAIN active_cxn : \E r \in ReleaseRows :
          /\ wire[i].adv
          /\ Step(gateway_receive(Begin("receive"), i, UpdateFrame(r)))

\* clients enabling and disabling a symbol while its snapshot and its ticks arrive
SpecRelease ==
    InitSymbols /\ [][SymbolEnable \/ SymbolDisable \/ DeliverQuote \/ DeliverRelease]_vars

\* a second account of the upstream
AccountRow2 == [BANK |-> "E", BRANCH |-> "F", CUSTOMER |-> "G", DEPOSIT |-> "H"]

\* the frames that answer a request of the startup row by row: the accounts table holds
\* one or two accounts, in either order; the orders table holds no order
OwedRows(w, c) ==
    {d \in OwedStartup(w, c) : d.f.type # "response"}
    \cup (IF w.reqs > 0 /\ c # NoCb /\ callbacks[c].label = "accounts"
          THEN {[f |-> ResponseFrame(r, FALSE), w |-> w] : r \in {AccountRow, AccountRow2}}
               \cup {[f |-> ResponseFrame(r, TRUE), w |-> [w EXCEPT !.reqs = @ - 1]] :
                        r \in {AccountRow, AccountRow2}}
          ELSE {d \in OwedStartup(w, c) : d.f.type = "response"})

\* RtxClient.lineReceived with a frame of a startup query; ev.cxn and ev.frame name the
\* channel and the frame
DeliverRows ==
    /\ Alive /\ gateway_sender
    /\ \E i \in DOMAIN active_cxn :
       \E d \in OwedRows(wire[i], active_cxn[i].response_callback) :
          Step(gateway_receive([Begin("receive") EXCEPT !.wire[i] = d.w, !.ev.cxn = i,
                                                         !.ev.frame = d.f],
                               i, d.f))

\* the startup queries answered row by row, under the clock
SpecRows == Init /\ [][GatewayConnect \/ Startup \/ DeliverRows \/ EverySecond]_vars

\* the frames the upstream sends a channel that awaits acks: what it owes, another ack
\* in the place of the one it owes, or one more ack when it owes none
OwedAcks(w) ==
    {d \in Owed(w) : d.f.type # "update"}
    \cup (IF w.acks # <<>>
          THEN {[f |-> AckFrame("POKE_FAILED"), w |-> [w EXCEPT !.acks = Tail(@)]]}
          ELSE {[f |-> AckFrame("POKE_OK"), w |-> w]})

\* RtxClient.lineReceived with such a frame; ev.cxn and ev.frame name the channel and
\* the frame
DeliverAcks ==
    /\ Alive /\ gateway_sender
    /\ \E i \in DOMAIN active_cxn : \E d \in OwedAcks(wire[i]) :
          Step(gateway_receive([Begin("receive") EXCEPT !.wire[i] = d.w, !.ev.cxn = i,
                                                         !.ev.frame = d.f],
                               i, d.f))

\* the adapter once it is Up: orders submitted and account data requested, the upstream
\* answering with acks of its choice
SpecAcks == InitUp /\ [][SubmitOrder \/ RequestAccountData \/ DeliverAcks]_vars

\* the accounts a downstream client asks a ticket for: one the upstream listed and one
\* it did not
TicketAccounts == {"A.B.C.D", "E.F.G.H"}

CreateTicket ==
    /\ Alive /\ connection_status = "Up"
    /\ \E a \in TicketAccounts :
          Step(create_staged_order_ticket([Begin("create_staged_order_ticket")
                                              EXCEPT !.ev.arg = a], a, "u1"))

\* the row of the ORDERS table for the staged order of the ticket T-u1
TicketRow(status) ==
    [OrderRow("O3", "T-u1", status) EXCEPT !.TYPE = "UserSubmitStagedOrder"]

\* frames the upstream owes a channel, the updates being rows of the ticket T-u1 once
\* the ticket was poked
OwedTicket(w, poked) ==
    {d \in Owed(w) : d.f.type # "update"}
    \cup (IF w.adv /\ poked
          THEN {[f |-> UpdateFrame(TicketRow(st)), w |-> w] : st \in {"PENDING", "LIVE"}}
          ELSE {})

\* RtxClient.lineReceived with such a frame; ev.cxn and ev.frame name the channel and
\* the frame
DeliverTicket ==
    /\ Alive /\ gateway_sender
    /\ \E i \in DOMAIN active_cxn :
       \E d \in OwedTicket(wire[i], pending_tickets # EmptyMap \/ tickets # EmptyMap) :
          Step(gateway_receive([Begin("receive") EXCEPT !.wire[i] = d.w, !.ev.cxn = i,
                                                         !.ev.frame = d.f],
                               i, d.f))

\* the adapter once it is Up: tickets created, the upstream publishing the staged order
SpecTickets == InitUp /\ [][CreateTicket \/ DeliverTicket \/ EverySecond]_vars

\* frames the upstream owes a channel: the status it owes with the status 1 or 0, and
\* as updates the row of the order O2 of another client
OwedPoke(w) ==
    {d \in Owed(w) : d.f.type \notin {"update", "status"}}
    \cup (IF w.stats # <<>>
          THEN {[f |-> StatusFrame(Head(w.stats), st), w |-> [w EXCEPT !.stats = Tail(@)]] :
                   st \in {"1", "0"}}
          ELSE {})
    \cup (IF w.adv THEN {[f |-> UpdateFrame(OrderRow("O2", None, "LIVE")), w |-> w]} ELSE {})

\* RtxClient.lineReceived with such a frame; ev.cxn and ev.frame name the channel and
\* the frame
DeliverPoke ==
    /\ Alive /\ gateway_sender
    /\ \E i \in DOMAIN active_cxn : \E d \in OwedPoke(wire[i]) :
          StepWide(gateway_receive([Begin("receive") EXCEPT !.wire[i] = d.w, !.ev.cxn = i,
                                                             !.ev.frame = d.f],
                                   i, d.f))

\* cancel_order, also when no idle channel is left and a new one is opened for the poke
CancelPoke ==
    /\ Alive /\ connection_status = "Up"
    /\ \E oid \in CancelIds : StepWide(cancel_order(Begin("cancel_order"), oid))

\* the adapter once it is Up: cancels poked on idle channels and on a new channel
SpecPoke == InitUp /\ [][CancelPoke \/ DeliverPoke]_vars

---------------------------------------------------------------------------
(* Properties *)

\* a pending slot of the channel is set
Busy(c) ==
    \/ c.ack_pending # None
    \/ c.response_pending
    \/ c.status_pending # None
    \/ c.status_callback # NoCb
    \/ c.update_callback # NoCb
    \/ c.update_handler # None

InIdle(i) == \E j \in DOMAIN idle_cxn[active_cxn[i].key] : idle_cxn[active_cxn[i].key][j] = i

Alerted(msg) == \E k \in DOMAIN ev.alerts : ev.alerts[k] = msg

C2_SweepExpiresAll ==
    ev.op = "EverySecond" =>
        \A c \in DOMAIN callbacks : ~callbacks[c].done => now <= callbacks[c].expire

\* C3: a callback is expired only after its start time plus the timeout of its purpose
\* (the DEFAULT timeout when it was created without one) has passed.
C3_ExpiredAfterTimeout ==
    \A c \in DOMAIN callbacks :
        /\ callbacks[c].expire = callbacks[c].started + callbacks[c].timeout
        /\ callbacks[c].expired => now > callbacks[c].started + callbacks[c].timeout

\* C4: a sweep that expires a callback changes neither a channel nor the idle pool; an
\* expired callback's continuation has been invoked once, by the expiry, whatever
\* arrives later; and a channel with no pending slot left is in the idle pool.
C4_ExpiryLeavesChannel ==
    /\ [](\A c \in DOMAIN callbacks : callbacks[c].expired => callbacks[c].fired = 1)
    /\ [](\A i \in DOMAIN active_cxn : ~Busy(active_cxn[i]) => InIdle(i))
    /\ [][(\E c \in DOMAIN callbacks : ~callbacks[c].expired /\ callbacks'[c].expired)
             => active_cxn' = active_cxn /\ idle_cxn' = idle_cxn]_vars

\* the reply to an expired request has arrived: it was logged and the channel is idle
C4_LateReplyDropped ==
    \E i \in DOMAIN active_cxn :
        /\ ev.op = "receive" /\ ev.fired = <<>>
        /\ Alerted("account_data completed after timeout")
        /\ ~Busy(active_cxn[i]) /\ InIdle(i)

\* C5: for every channel, ready is true if and only if no pending slot is set.
C5_ReadyIffNoPending ==
    \A i \in DOMAIN active_cxn : active_cxn[i].ready <=> ~Busy(active_cxn[i])

\* C6: every channel in the idle pool has none of its pending slots set.
C6_IdleHasNoPending ==
    \A k \in Keys : \A j \in DOMAIN idle_cxn[k] : ~Busy(active_cxn[idle_cxn[k][j]])

\* C7: a command sent on a channel that is not connected yet is stored and not
\* transmitted; it leaves on_connect_action only when OnInitAck with status 1 connects
\* the channel, and then it is transmitted exactly once, with its own arguments and
\* expectations.
C7_StoredThenReplayed ==
    /\ [](ev.ret = "True" =>
            /\ \A k \in DOMAIN ev.sent : ev.sent[k].cmd = "connect"
            /\ active_cxn[Len(active_cxn)].on_connect_action.cmd = "request"
            /\ active_cxn[Len(active_cxn)].on_connect_action.cbr = Len(callbacks))
    /\ [][\A i \in DOMAIN active_cxn :
             LET a == active_cxn[i].on_connect_action IN
             (a # NoAction /\ active_cxn'[i].on_connect_action # a) =>
                 /\ ~active_cxn[i].connected /\ active_cxn'[i].connected
                 /\ ev'.sent = <<[cmd |-> a.cmd, id |-> i, args |-> a.args]>>
                 /\ active_cxn'[i].on_connect_action = NoAction
                 /\ active_cxn'[i].ack_pending = a.exa
                 /\ active_cxn'[i].response_pending = a.exr
                 /\ active_cxn'[i].response_callback = a.cbr
                 /\ active_cxn'[i].status_pending = a.exs]_vars
    /\ [][\A i \in DOMAIN active_cxn :
             (active_cxn[i].on_connect_action # NoAction
                 /\ ~active_cxn[i].connected /\ active_cxn'[i].connected)
             => active_cxn'[i].on_connect_action = NoAction]_vars

\* OnInitAck has just replayed a stored request
C7_Replayed ==
    /\ ev.op = "receive"
    /\ \E k \in DOMAIN ev.sent : ev.sent[k].cmd = "request"
    /\ \E i \in DOMAIN active_cxn :
          /\ active_cxn[i].connected /\ active_cxn[i].on_connect_action = NoAction
          /\ active_cxn[i].response_pending

C9_NoMismatch ==
    /\ ~Alerted("Ack Mismatch")
    /\ \A k \in DOMAIN ev.fired : ev.fired[k].result # NullResult

\* C10: an order row whose ORIGINAL_ORDER_ID is oid and which matches neither a pending
\* submission (by CLIENT_ORDER_ID) nor a pending change (by oid) is applied to
\* orders[oid], which is created if it does not exist.
C10_RowApplied ==
    [][LET r == ev'.row IN
       (/\ r # EmptyMap
        /\ ~(HasField(r, "CLIENT_ORDER_ID") /\ HasField(pending_orders, r["CLIENT_ORDER_ID"]))
        /\ ~HasField(pending_orders, r["ORIGINAL_ORDER_ID"]))
       => /\ HasField(orders', r["ORIGINAL_ORDER_ID"])
          /\ \A k \in DOMAIN r :
                order_objs'[orders'[r["ORIGINAL_ORDER_ID"]]].fields[k] = r[k]]_vars

\* the entries of ev.fired that invoke the continuation of callback c
FiredFor(e, c) == {k \in DOMAIN e.fired : e.fired[k].cb = c}

\* C11: a row whose CLIENT_ORDER_ID is the key of a pending submission moves that entry
\* (the same order object) to orders under the row's ORIGINAL_ORDER_ID and out of
\* pending_orders; the submitter's callback, unless the sweep expired it before, is
\* completed in that step with the rendered order (permid the ORIGINAL_ORDER_ID, status
\* Submitted for a PENDING row) and detached from the order; a callback whose
\* continuation was invoked is never invoked again by a later row.
C11_SubmissionPromoted ==
    /\ [][LET r == ev'.row IN
          (/\ r # EmptyMap
           /\ HasField(r, "CLIENT_ORDER_ID")
           /\ HasField(pending_orders, r["CLIENT_ORDER_ID"]))
          => LET p == pending_orders[r["CLIENT_ORDER_ID"]]
                 cb == order_objs[p].callback
                 f == order_objs'[p].fields
             IN  /\ HasField(orders', r["ORIGINAL_ORDER_ID"])
                 /\ orders'[r["ORIGINAL_ORDER_ID"]] = p
                 /\ ~HasField(pending_orders', r["CLIENT_ORDER_ID"])
                 /\ cb # NoCb /\ order_objs'[p].callback = NoCb
                 /\ callbacks'[cb].fired = 1
                 /\ ~callbacks[cb].done =>
                       /\ ev'.fired = <<[cb |-> cb, how |-> "callback",
                                         result |-> Result("order", None, None, <<f>>)]>>
                       /\ f["permid"] = r["ORIGINAL_ORDER_ID"]
                       /\ r["CURRENT_STATUS"] = "PENDING" => f["status"] = "Submitted"]_vars
    /\ [][\A c \in DOMAIN callbacks :
             callbacks[c].fired = 1 => callbacks'[c].fired = 1 /\ FiredFor(ev', c) = {}]_vars

\* the PENDING row of the submitted order has just promoted it
C11_Promoted ==
    /\ ev.op = "receive"
    /\ HasField(ev.row, "CLIENT_ORDER_ID") /\ ev.row["CURRENT_STATUS"] = "PENDING"
    /\ pending_orders = EmptyMap
    /\ HasField(orders, ev.row["ORIGINAL_ORDER_ID"])
    /\ \E k \in DOMAIN ev.fired :
          /\ ev.fired[k].result.kind = "order"
          /\ ev.fired[k].result.rows[1]["status"] = "Submitted"

\* C12: when a change of the order oid is pending (pending_orders keyed by oid) and a
\* row with ORIGINAL_ORDER_ID = oid arrives, with or without a CLIENT_ORDER_ID, the
\* change's callback is completed with the rendered order, the entry leaves
\* pending_orders, and orders[oid] holds the updated order, whether or not oid was in
\* orders when the change was submitted.
C12_ChangePromoted ==
    [][LET r == ev'.row IN
       (r # EmptyMap /\ HasField(pending_orders, r["ORIGINAL_ORDER_ID"]))
       => LET oid == r["ORIGINAL_ORDER_ID"]
              cb == order_objs[pending_orders[oid]].callback
          IN  /\ ~HasField(pending_orders', oid)
              /\ HasField(orders', oid)
              /\ orders'[oid] = pending_orders[oid]
              /\ \A k \in DOMAIN r : order_objs'[orders'[oid]].fields[k] = r[k]
              /\ \E k \in FiredFor(ev', cb) : ev'.fired[k].result.kind = "order"]_vars

\* C13: every order stored in orders under the key k has ORIGINAL_ORDER_ID = k in its
\* fields, also when the row that created it had no ORDER_ID.
C13_KeyedByOriginalId ==
    \A k \in DOMAIN orders :
        /\ HasField(order_objs[orders[k]].fields, "ORIGINAL_ORDER_ID")
        /\ order_objs[orders[k]].fields["ORIGINAL_ORDER_ID"] = k

\* the row of the step is the one last recorded for its ORDER_ID on the order o
Repeated(o, r) ==
    /\ HasField(r, "ORDER_ID")
    /\ HasField(order_objs[o].suborders, r["ORDER_ID"])
    /\ order_objs[o].suborders[r["ORDER_ID"]] = r

\* C14: a row identical to the row last recorded for the same ORDER_ID of the order,
\* also after rows of other sub-orders were applied, changes neither the fields nor
\* the updates of the order and writes nothing downstream.
C14_RepeatedRowIgnored ==
    [][LET r == ev'.row IN
       (/\ r # EmptyMap
        /\ HasField(orders, r["ORIGINAL_ORDER_ID"])
        /\ Repeated(orders[r["ORIGINAL_ORDER_ID"]], r))
       => LET o == orders[r["ORIGINAL_ORDER_ID"]]
          IN  /\ order_objs'[o].fields = order_objs[o].fields
              /\ order_objs'[o].updates = order_objs[o].updates
              /\ order_objs'[o].suborders = order_objs[o].suborders
              /\ ev'.out = <<>>]_vars

\* a row was repeated after a row of another sub-order had changed the order
C14_RepeatedAfterOther ==
    /\ ev.op = "receive" /\ ev.row # EmptyMap /\ ev.out = <<>>
    /\ HasField(orders, "O2")
    /\ Repeated(orders["O2"], ev.row)
    /\ order_objs[orders["O2"]].fields["ORDER_ID"] # ev.row["ORDER_ID"]
    /\ order_objs[orders["O2"]].updates # <<>>

\* the order of the row r before the step: a new order has no fields
Before(r) ==
    IF HasField(orders, r["ORIGINAL_ORDER_ID"])
    THEN order_objs[orders[r["ORIGINAL_ORDER_ID"]]]
    ELSE [oid |-> r["ORIGINAL_ORDER_ID"], fields |-> EmptyMap, callback |-> NoCb,
          updates |-> <<>>, suborders |-> EmptyMap]

\* the row r changes the field map of its order
FieldsChange(r) ==
    /\ HasField(r, "ORDER_ID")
    /\ ~(HasField(Before(r).suborders, r["ORDER_ID"])
         /\ Before(r).suborders[r["ORDER_ID"]] = r)
    /\ Merge(Before(r).fields, r) # Before(r).fields

\* C15: an update of an order writes exactly one order.<permid> <account> <TYPE>
\* <status> event downstream if the row changes the field map of the order, and none
\* otherwise.
C15_OneEventIffChanged ==
    [][LET r == ev'.row IN
       (r # EmptyMap /\ HasField(orders', r["ORIGINAL_ORDER_ID"]))
       => LET f == order_objs'[orders'[r["ORIGINAL_ORDER_ID"]]].fields
          IN  IF FieldsChange(r)
              THEN /\ HasField(f, "status")
                   /\ Cardinality({k \in DOMAIN ev'.out : ev'.out[k] = StatusLine(f)}) = 1
              ELSE \A k \in DOMAIN ev'.out :
                      \E j \in DOMAIN ev'.alerts : ev'.out[k] = "error: " \o ev'.alerts[j]]_vars

\* C19: cancel_order for an order whose rendered status is Cancelled completes the
\* caller's callback at once with an error payload and sends no poke upstream.
C19_CancelledNotCancelledAgain ==
    [][(/\ ev'.op = "cancel_order"
        /\ HasField(orders, "O2")
        /\ HasField(order_objs[orders["O2"]].fields, "status")
        /\ order_objs[orders["O2"]].fields["status"] = "Cancelled")
       => /\ ev'.sent = <<>>
          /\ \E k \in FiredFor(ev', Len(callbacks) + 1) :
                ev'.fired[k].result.kind = "error"]_vars

\* C20: submit_order for an account that is not in accounts completes the caller's
\* callback in the call with the error "account unknown", sends nothing upstream and
\* leaves pending_orders, orders, the callback lists, the order route and the channel
\* pool as they were.
C20_UnknownAccountRejected ==
    [][(ev'.op = "submit_order" /\ ev'.arg \notin Range(accounts))
       => /\ ev'.fired = <<[cb |-> Len(callbacks) + 1, how |-> "callback",
                            result |-> Result("error", "account unknown", None, <<>>)]>>
          /\ callbacks'[Len(callbacks) + 1].done
          /\ ev'.sent = <<>>
          /\ pending_orders' = pending_orders /\ orders' = orders
          /\ order_objs' = order_objs /\ cblists' = cblists
          /\ order_route' = order_route
          /\ active_cxn' = active_cxn /\ idle_cxn' = idle_cxn]_vars

\* a submission for an unlisted account has just been rejected
C20_Rejected ==
    /\ ev.op = "submit_order" /\ ev.arg = "E.F.G.H" /\ ev.arg \notin Range(accounts)
    /\ \E k \in DOMAIN ev.fired : ev.fired[k].result.s = "account unknown"

\* C16: whatever CURRENT_STATUS and TYPE an order has, render leaves it with a status
\* field or raises an error alert.
C16_StatusOrAlert ==
    ev.op = "render" => HasField(order_objs[1].fields, "status") \/ ev.alerts # <<>>

\* CURRENT_STATUS and TYPE as render reads them, with their defaults
StatusOf(o) == Get(o.fields, "CURRENT_STATUS", "UNDEFINED")
TypeOf(o) == Get(o.fields, "TYPE", "Undefined")

\* fully filled: COMPLETED, a fill type on the base or among the updates, and the
\* traded volume equal to the original volume
FullyFilled(o) ==
    /\ StatusOf(o) = "COMPLETED"
    /\ \/ TypeOf(o) = "ExchangeTradeOrder"
       \/ \E i \in DOMAIN o.updates : o.updates[i].type = "ExchangeTradeOrder"
    /\ HasField(o.fields, "ORIGINAL_VOLUME") /\ HasField(o.fields, "VOLUME_TRADED")
    /\ o.fields["ORIGINAL_VOLUME"] = o.fields["VOLUME_TRADED"]

\* the status table; "(kept)" where the table leaves the status as it was
TableStatus(o) ==
    CASE StatusOf(o) = "PENDING" -> "Submitted"
      [] StatusOf(o) = "LIVE" -> "Pending"
      [] StatusOf(o) = "CANCELLED" -> "Cancelled"
      [] StatusOf(o) = "DELETED" -> "Error"
      [] StatusOf(o) = "COMPLETED" /\ FullyFilled(o) -> "Filled"
      [] StatusOf(o) = "COMPLETED" /\ ~FullyFilled(o) ->
            (CASE TypeOf(o) \in {"UserSubmitOrder", "UserSubmitStagedOrder",
                                 "UserSubmitStatus", "ExchangeReportStatus"} -> "Submitted"
               [] TypeOf(o) = "UserSubmitCancel" -> "Cancelled"
               [] TypeOf(o) = "UserSubmitChange" -> "Changed"
               [] TypeOf(o) = "ExchangeAcceptOrder" -> "Accepted"
               [] TypeOf(o) = "ExchangeTradeOrder" -> "(kept)"
               [] OTHER -> "Error")
      [] OTHER -> "Error"

\* the cases in which the table raises an alert
TableAlert(o) ==
    \/ StatusOf(o) \notin {"PENDING", "LIVE", "COMPLETED", "CANCELLED", "DELETED"}
    \/ /\ StatusOf(o) = "COMPLETED" /\ ~FullyFilled(o)
       /\ TypeOf(o) \notin {"UserSubmitOrder", "UserSubmitStagedOrder", "UserSubmitStatus",
                            "ExchangeReportStatus", "UserSubmitCancel", "UserSubmitChange",
                            "ExchangeAcceptOrder", "ExchangeTradeOrder", "ClerkReject",
                            "ExchangeKillOrder"}

\* C17: the status render derives is the one of the status table, Filled taking
\* precedence over TYPE for a COMPLETED order that is fully filled, the status as it
\* was for a COMPLETED ExchangeTradeOrder that is not, and an alert exactly for an
\* unknown TYPE or CURRENT_STATUS.
C17_StatusTable ==
    [][ev'.op = "render" =>
          /\ IF TableStatus(order_objs[1]) = "(kept)"
             THEN /\ HasField(order_objs'[1].fields, "status")
                        <=> HasField(order_objs[1].fields, "status")
                  /\ HasField(order_objs[1].fields, "status") =>
                        order_objs'[1].fields["status"] = order_objs[1].fields["status"]
             ELSE /\ HasField(order_objs'[1].fields, "status")
                  /\ order_objs'[1].fields["status"] = TableStatus(order_objs[1])
          /\ (ev'.alerts # <<>>) <=> TableAlert(order_objs[1])]_vars

\* a COMPLETED order whose TYPE is a cancel but which is fully filled through a fill
\* among its updates has been rendered Filled
C17_FilledOverType ==
    /\ ev.op = "render"
    /\ order_objs[1].fields["TYPE"] = "UserSubmitCancel"
    /\ order_objs[1].fields["CURRENT_STATUS"] = "COMPLETED"
    /\ order_objs[1].updates # <<>>
    /\ order_objs[1].fields["status"] = "Filled"

\* C18: cancel_order for an oid that is not in orders completes the caller's callback
\* in the call with the error "Order not found", sends nothing upstream, takes no
\* channel from the pool and registers nothing in the callback lists.
C18_UnknownOrderRejected ==
    [][(/\ ev'.op = "cancel_order"
        /\ ~HasField(orders, callbacks'[Len(callbacks) + 1].id))
       => /\ ev'.fired = <<[cb |-> Len(callbacks) + 1, how |-> "callback",
                            result |-> Result("error", "Order not found", None, <<>>)]>>
          /\ callbacks'[Len(callbacks) + 1].done
          /\ ev'.sent = <<>>
          /\ active_cxn' = active_cxn /\ idle_cxn' = idle_cxn
          /\ cblists' = cblists]_vars

\* a cancel of an order the book does not hold has just been rejected
C18_Rejected ==
    /\ ev.op = "cancel_order"
    /\ ~HasField(orders, "O2")
    /\ \E k \in DOMAIN ev.fired : ev.fired[k].result.s = "Order not found"

\* the call that just returned is the submission a: the order it registered, if any
Submitting == ev.op = "submit_order"
Registered == HasField(pending_orders, "u1")
SubmittedFields == order_objs[pending_orders["u1"]].fields
Poked == \E k \in DOMAIN ev.sent : ev.sent[k].cmd = "poke"

\* C21: submit_order with a route argument that is not a valid route completes the
\* caller's callback in the call with an error payload, registers no pending order and
\* sends no poke upstream, also when a valid route was configured before.
C21_InvalidRouteRejected ==
    [][(ev'.op = "submit_order" /\ ev'.arg.route \notin ValidRoutes)
       => /\ \E k \in DOMAIN ev'.fired : ev'.fired[k].result.kind = "error"
          /\ pending_orders' = pending_orders
          /\ ev'.sent = <<>>]_vars

\* C22: a submission of type market, limit, stop or stoplimit registers a pending order
\* with the price fields of its type and sends a poke; any other type is rejected.
C22_PriceFieldsByType ==
    (Submitting /\ ev.arg.order_type \in {"market", "limit", "stop", "stoplimit"})
    => /\ Registered /\ Poked /\ ~ev.raised
       /\ SubmittedFields["PRICE_TYPE"] =
             (CASE ev.arg.order_type = "market" -> "Market"
                [] ev.arg.order_type = "limit" -> "AsEntered"
                [] ev.arg.order_type = "stop" -> "Stop"
                [] OTHER -> "StopLimit")
       /\ HasField(SubmittedFields, "PRICE") <=> ev.arg.order_type \in {"limit", "stoplimit"}
       /\ HasField(SubmittedFields, "STOP_PRICE") <=> ev.arg.order_type \in {"stop", "stoplimit"}

\* C23: a submission carries BUYORSELL=Buy when its quantity is zero or more, Sell when
\* it is negative, and VOLUME is the absolute value of the quantity.
C23_SideAndVolume ==
    (Submitting /\ Registered /\ Poked)
    => /\ SubmittedFields["BUYORSELL"] = (IF ev.arg.quantity >= 0 THEN "Buy" ELSE "Sell")
       /\ SubmittedFields["VOLUME"] = ToString(Abs(ev.arg.quantity))

\* C24: every symbol of the symbol table has a client, whatever symbol_enable,
\* symbol_disable, close_client and the snapshots of the upstream did.
C24_WatchedSymbolsHaveClients ==
    \A s \in DOMAIN symbols : symbol_objs[symbols[s]].clients # {}

\* the last client of a symbol has just left and the symbol with it
C24_LastClientLeft ==
    /\ ev.op \in {"symbol_disable", "close_client"}
    /\ symbol_objs # <<>> /\ symbols = EmptyMap
    /\ symbol_objs[1].clients = {}

\* the channels that carry, or will carry once connected, the command cmd of the
\* API_Symbol k
AdviseChannels(cxns, k) ==
    {i \in DOMAIN cxns : \/ cxns[i].update_handler = ParseFieldsOf(k)
                         \/ cxns[i].on_connect_action.uhr = ParseFieldsOf(k)}

InitCallbacks(cbs) == {c \in DOMAIN cbs : cbs[c].label = "init_symbol"}

\* the snapshot of the API_Symbol k has arrived and names no error
Initialized(o) == o.rawdata # EmptyMap /\ ~HasField(o.rawdata, "SYMBOL_ERROR")

\* C25: enabling a symbol that is already watched, before or after its snapshot, adds
\* the client, completes the callback with true in the call and issues no request, no
\* advise and no channel; every API_Symbol has one snapshot request and, once its
\* snapshot arrived without error, one advise.
C25_OneSubscription ==
    /\ [](/\ Cardinality(InitCallbacks(callbacks)) = Len(symbol_objs)
          /\ \A k \in DOMAIN symbol_objs :
                Cardinality(AdviseChannels(active_cxn, k)) =
                    (IF Initialized(symbol_objs[k]) THEN 1 ELSE 0))
    /\ [][(ev'.op = "symbol_enable" /\ HasField(symbols, ev'.arg))
          => /\ ev'.fired = <<[cb |-> Len(callbacks) + 1, how |-> "callback",
                               result |-> Value("true")]>>
             /\ symbols' = symbols /\ Len(symbol_objs') = Len(symbol_objs)
             /\ symbol_objs'[symbols[ev'.arg]].clients =
                    symbol_objs[symbols[ev'.arg]].clients \cup {ev'.client}
             /\ ev'.sent = <<>> /\ active_cxn' = active_cxn /\ idle_cxn' = idle_cxn
             /\ Len(callbacks') = Len(callbacks) + 1]_vars

\* a second client has just enabled a symbol whose snapshot had arrived
C25_SecondEnable ==
    /\ ev.op = "symbol_enable" /\ ev.fired # <<>>
    /\ HasField(symbols, "XYZ")
    /\ symbol_objs[symbols["XYZ"]].clients = {"c1", "c2"}
    /\ Initialized(symbol_objs[symbols["XYZ"]])
    /\ Cardinality(AdviseChannels(active_cxn, symbols["XYZ"])) = 1

\* the API_Symbol whose snapshot the channel i awaits, 0 if it awaits none
Awaited(i) ==
    IF /\ active_cxn[i].response_callback # NoCb
       /\ \E k \in DOMAIN symbol_objs :
             callbacks[active_cxn[i].response_callback].callable.callback = InitHandlerOf(k)
    THEN CHOOSE k \in DOMAIN symbol_objs :
             callbacks[active_cxn[i].response_callback].callable.callback = InitHandlerOf(k)
    ELSE 0

\* the snapshot of the API_Symbol k arrives in this step
SnapshotOf(k) ==
    /\ ev'.op = "receive" /\ ev'.arg = ParseFieldsOf(k)
    /\ \E i \in DOMAIN active_cxn :
          /\ Awaited(i) = k
          /\ callbacks'[active_cxn[i].response_callback].done

FiredTrue(e, c) ==
    \E j \in DOMAIN e.fired : e.fired[j].cb = c /\ e.fired[j].result = Value("true")

\* C26: when the snapshot of a newly enabled symbol arrives, its add-symbol callback
\* is completed with true exactly when the snapshot carries no SYMBOL_ERROR (a callback
\* that expired before stays failed), and the advise is started exactly then.
C26_TrueIffNoSymbolError ==
    [][\A k \in DOMAIN symbol_objs :
          SnapshotOf(k)
          => /\ FiredTrue(ev', symbol_objs[k].callback) => ~HasField(ev'.row, "SYMBOL_ERROR")
             /\ (~HasField(ev'.row, "SYMBOL_ERROR") /\ ~callbacks[symbol_objs[k].callback].done)
                   => FiredTrue(ev', symbol_objs[k].callback)
             /\ (AdviseChannels(active_cxn', k) # {}) <=> ~HasField(ev'.row, "SYMBOL_ERROR")
             /\ AdviseChannels(active_cxn, k) = {}]_vars

\* a snapshot without error has just completed the callback with true and started the
\* advise
C26_Accepted ==
    /\ ev.op = "receive" /\ ev.arg = ParseFieldsOf(1)
    /\ ~HasField(ev.row, "SYMBOL_ERROR")
    /\ FiredTrue(ev, symbol_objs[1].callback)
    /\ AdviseChannels(active_cxn, 1) # {}

\* the quote and trade events the adapter can emit
QuotePrices == {0} \cup {TqlFloat[p] : p \in DOMAIN TqlFloat}
QuoteSizes == {0} \cup {TqlInt[n] : n \in DOMAIN TqlInt}

QuoteEvents ==
    {QuoteString([symbol |-> s, bid |-> b, bid_size |-> bs, ask |-> a, ask_size |-> as]) :
        s \in SymbolNames, b \in QuotePrices, bs \in QuoteSizes, a \in QuotePrices,
        as \in QuoteSizes}

TradeEvents ==
    {TradeString([symbol |-> s, last |-> l, size |-> n, volume |-> v]) :
        s \in SymbolNames, l \in QuotePrices, n \in QuoteSizes, v \in QuoteSizes}

Emitted(e, events) == {j \in DOMAIN e.out : e.out[j] \in events}

\* the step delivers a row of the advise of the API_Symbol k
TickOf(k) ==
    /\ ev'.op = "receive" /\ ev'.arg = ParseFieldsOf(k)
    /\ AdviseChannels(active_cxn, k) # {}

\* C27: with the ticker enabled, a tick emits a quote event only when its quote string
\* differs from the last one emitted for the symbol, so a row delivered a second time
\* emits none; every tick with a trade-side field emits a trade event.
C27_DuplicateQuoteSuppressed ==
    [][\A k \in DOMAIN symbol_objs :
          (TickOf(k) /\ enable_ticker)
          => /\ Cardinality(Emitted(ev', QuoteEvents)) =
                   (IF /\ quote_flag(ev'.row)
                       /\ QuoteString(symbol_objs'[k]) # symbol_objs[k].last_quote
                    THEN 1 ELSE 0)
             /\ \A j \in Emitted(ev', QuoteEvents) :
                   /\ ev'.out[j] # symbol_objs[k].last_quote
                   /\ ev'.out[j] = symbol_objs'[k].last_quote
             /\ (ev.op = "receive" /\ ev.row = ev'.row) => Emitted(ev', QuoteEvents) = {}
             /\ Cardinality(Emitted(ev', TradeEvents)) = (IF trade_flag(ev'.row) THEN 1 ELSE 0)]_vars

\* a quote row has just been delivered and emitted nothing: its quote was the last one
C27_Suppressed ==
    /\ ev.op = "receive" /\ ev.arg = ParseFieldsOf(1) /\ enable_ticker
    /\ ev.row = [BID |-> "10.00", BIDSIZE |-> "5", ASK |-> "10.02", ASKSIZE |-> "7"]
    /\ ev.out = <<>>
    /\ symbol_objs[1].last_quote = QuoteString(symbol_objs[1])

\* the quote string of a row that carries both prices and both sizes
QuoteOf(symbol, row) ==
    QuoteString([symbol |-> symbol, bid |-> parse_tql_float(row["BID"]),
                 bid_size |-> parse_tql_int(row["BIDSIZE"]),
                 ask |-> parse_tql_float(row["ASK"]),
                 ask_size |-> parse_tql_int(row["ASKSIZE"])])

\* C28: with the ticker enabled, after a tick that carries BID, BIDSIZE, ASK and ASKSIZE
\* the last quote emitted for the symbol carries the bid size and the ask size of the
\* tick.
C28_QuoteCarriesSizes ==
    \A k \in DOMAIN symbol_objs :
        (/\ ev.op = "receive" /\ ev.arg = ParseFieldsOf(k) /\ enable_ticker
         /\ {"BID", "BIDSIZE", "ASK", "ASKSIZE"} \subseteq DOMAIN ev.row)
        => symbol_objs[k].last_quote = QuoteOf(symbol_objs[k].symbol, ev.row)

\* the watchdog has forced the shutdown in the handler that ran last
WatchdogFired(e) ==
    \E j \in DOMAIN e.alerts :
        e.alerts[j] = "API Disconnect: Realtick Gateway connection timed out"

\* C29: a 1 Hz tick forces the shutdown exactly when it is the 31st (or a later)
\* consecutive tick with the upstream socket down: not before, never with the socket
\* connected, and whatever reconnect attempts failed in between.
C29_WatchdogAfterThirtySeconds ==
    [][ev'.op = "EverySecond"
       => (WatchdogFired(ev') <=> ticks_down' > DISCONNECT_SECONDS)]_vars

\* the callback of the accounts request of the startup
AccountsCallbacks == {c \in DOMAIN callbacks : callbacks[c].label = "accounts"}

\* the stored command of a channel
Stored(cxn, cmd, args) ==
    cxn.on_connect_action.cmd = cmd /\ cxn.on_connect_action.args = args

\* the accounts callback c is failed in this step: it expires, it is completed with
\* null, or it is completed with a reply that lists no account
AccountsFailed(c) ==
    \/ ~callbacks[c].expired /\ callbacks'[c].expired
    \/ \E j \in DOMAIN ev'.fired :
          /\ ev'.fired[j].cb = c /\ ev'.fired[j].how = "callback"
          /\ \/ ev'.fired[j].result.kind = "null"
             \/ \A r \in DOMAIN ev'.fired[j].result.rows : ev'.fired[j].result.rows[r] = EmptyMap

\* the accounts callback c is completed in this step with a reply that lists an account
AccountsListing(c) ==
    \E j \in DOMAIN ev'.fired :
        /\ ev'.fired[j].cb = c /\ ev'.fired[j].how = "callback"
        /\ \E r \in DOMAIN ev'.fired[j].result.rows : ev'.fired[j].result.rows[r] # EmptyMap

\* C30: the startup frame issues the accounts request, then the ORDERS advise, then the
\* ORDERS request; when the accounts request expires, is failed with null or returns
\* an empty result, force_disconnect is invoked and the status is not Up; the status
\* becomes Up only with a non-empty accounts reply.
C30_StartupQueries ==
    [][/\ ev'.op = "system"
          => /\ Len(active_cxn') = Len(active_cxn) + 3
             /\ Stored(active_cxn'[Len(active_cxn) + 1], "request", "ACCOUNT;*;")
             /\ Stored(active_cxn'[Len(active_cxn) + 2], "advise", "ORDERS;*;")
             /\ Stored(active_cxn'[Len(active_cxn) + 3], "request", "ORDERS;*;")
             /\ connection_status' = "Startup"
       /\ \A c \in AccountsCallbacks :
             AccountsFailed(c) => (ev'.stopped /\ connection_status' = "Disconnected")
       /\ (connection_status' = "Up" /\ connection_status # "Up")
             => \E c \in AccountsCallbacks : AccountsListing(c)]_vars

\* C40: when the snapshot of a symbol carries SYMBOL_ERROR, then once the reply is
\* handled the symbol is not in the symbol table and has no advise, however many
\* clients enabled it while the request was in flight.
C40_FailedSymbolDropped ==
    [][\A k \in DOMAIN symbol_objs :
          (SnapshotOf(k) /\ HasField(ev'.row, "SYMBOL_ERROR") /\ ~ev'.raised)
          => /\ ~HasField(symbols', symbol_objs[k].symbol)
             /\ AdviseChannels(active_cxn', k) = {}]_vars

\* the channel cxn_get returns in this step to request_account_data: the one that
\* carries the new callback
Taken(i) ==
    /\ ev'.op = "request_account_data"
    /\ \/ active_cxn'[i].response_callback = Len(callbacks) + 1
       \/ active_cxn'[i].on_connect_action.cbr = Len(callbacks) + 1

\* C39: a channel is held by one user at a time: no channel is twice in the idle pool,
\* and the channel cxn_get returns is a new one or one without an outstanding command,
\* whatever frames arrived, also on idle channels.
C39_ChannelHeldOnce ==
    /\ [](\A k \in Keys : \A a, b \in DOMAIN idle_cxn[k] :
             idle_cxn[k][a] = idle_cxn[k][b] => a = b)
    /\ [][\A i \in DOMAIN active_cxn :
             Taken(i) => (~Busy(active_cxn[i]) /\ active_cxn[i].on_connect_action = NoAction)]_vars

\* cxn_get returns the channel i in this step: it leaves its place in the idle pool
Returned(i) ==
    \E k \in Keys : \E j \in DOMAIN idle_cxn[k] :
        /\ idle_cxn[k][j] = i
        /\ (j > Len(idle_cxn'[k]) \/ idle_cxn'[k][j] # i)

\* C32: a channel created on an upstream socket that has been lost since is never
\* returned by cxn_get (a new channel is made instead), and it stays registered in
\* active_cxn.
C32_DeadChannelsNotReused ==
    [][\A i \in DOMAIN active_cxn :
          wire[i].gone => (~Returned(i) /\ i \in DOMAIN active_cxn')]_vars

\* the accounts query of the startup of the present connection is in flight
AccountsInFlight ==
    /\ connected /\ accounts = <<>>
    /\ \E c \in AccountsCallbacks : \E i \in DOMAIN active_cxn :
          /\ ~callbacks[c].done /\ ~wire[i].gone
          /\ \/ active_cxn[i].response_callback = c
             \/ active_cxn[i].on_connect_action.cbr = c

\* the callbacks of the list name that wait for the accounts
Waiting(name) == {c \in Range(cblists[name]) : ~callbacks[c].done}

\* C36: a set_account or request_accounts call made while the accounts are unknown and
\* the accounts query of the startup is in flight is deferred, on the first connection
\* and after a disconnect, reconnect and startup; the accounts reply completes the
\* deferred calls, set_account with the result of the verification and
\* request_accounts with the list.
C36_DeferredUntilAccounts ==
    [][/\ (ev'.op = "set_account" /\ AccountsInFlight)
          => /\ ev'.fired = <<>>
             /\ cblists'["set_account_callbacks"] =
                    Append(cblists["set_account_callbacks"], Len(callbacks) + 1)
       /\ (ev'.op = "request_accounts" /\ AccountsInFlight)
          => /\ ev'.fired = <<>>
             /\ cblists'["account_request_callbacks"] =
                    Append(cblists["account_request_callbacks"], Len(callbacks) + 1)
       /\ (\E a \in AccountsCallbacks : AccountsListing(a))
          => /\ \A c \in Waiting("set_account_callbacks") :
                   \E j \in FiredFor(ev', c) :
                       ev'.fired[j].result =
                           Value(IF callbacks[c].id \in Range(accounts') THEN "true"
                                 ELSE "false")
             /\ \A c \in Waiting("account_request_callbacks") :
                   \E j \in FiredFor(ev', c) :
                       ev'.fired[j].result = Result("accounts", None, None, accounts')]_vars

\* C31: while the ORDERS advise is active, a status frame OnTerminate on its channel
\* reaches the update handler as null and forces the disconnect: the status becomes
\* Disconnected, the event connection-status-changed: Disconnected is emitted before
\* the error event of the disconnect, and the reactor is stopped; an OnOtherAck status
\* on the channel never does any of this.
C31_TerminateForcesDisconnect ==
    [][/\ (ev'.op = "receive" /\ ev'.arg = "OnTerminate")
          => /\ connection_status' = "Disconnected"
             /\ ev'.stopped
             /\ ev'.out =
                    <<"error: Status Unexpected", "connection-status-changed: Disconnected",
                      "error: API Disconnect: API Order Status ADVISE connection has been terminated">>
       /\ (ev'.op = "receive" /\ ev'.arg = "OnOtherAck")
          => /\ connection_status' = connection_status
             /\ ~ev'.stopped
             /\ \A j \in DOMAIN ev'.out :
                   ev'.out[j] # "connection-status-changed: Disconnected"]_vars

\* the ORDERS advise has just been terminated while the adapter was Up
C31_Terminated ==
    /\ ev.op = "receive" /\ ev.arg = "OnTerminate"
    /\ ev.stopped /\ connection_status = "Disconnected"
    /\ accounts # <<>>
    /\ \E i \in DOMAIN active_cxn : active_cxn[i].update_handler = "handle_order_update"

\* the channels that carry an advise of the symbol s
AdvisesOf(s) ==
    {i \in DOMAIN active_cxn :
        \E k \in DOMAIN symbol_objs :
            symbol_objs[k].symbol = s /\ active_cxn[i].update_handler = ParseFieldsOf(k)}

\* C37: once the client set of a symbol is empty its advise is released: a tick or a
\* late snapshot for it emits no quote or trade event and starts no advise; and a
\* symbol never has more than one active advise, so that a tick yields at most one
\* trade event.
C37_ReleasedSymbolSilent ==
    /\ [](\A s \in SymbolNames : Cardinality(AdvisesOf(s)) <= 1)
    /\ [][\A k \in DOMAIN symbol_objs :
             /\ TickOf(k) => Cardinality(Emitted(ev', TradeEvents)) <= 1
             /\ (symbol_objs[k].clients = {} /\ (TickOf(k) \/ SnapshotOf(k)))
                => /\ Emitted(ev', QuoteEvents \cup TradeEvents) = {}
                   /\ AdviseChannels(active_cxn', k) \subseteq AdviseChannels(active_cxn, k)]_vars

\* the callback c is completed in this step with the value v
CompletedWith(c, v) ==
    \E j \in DOMAIN ev'.fired :
        ev'.fired[j].cb = c /\ ev'.fired[j].how = "callback" /\ ev'.fired[j].result = v

\* what the continuation of the callback cb gets when complete() is called with rows:
\* the list itself, or for the orders query what format_results makes of it
Passed(cb, rows) ==
    IF cb.label = "orders" THEN RenderOrders(HandleRows(Cur, rows)).ret
    ELSE Result("rows", None, None, rows)

\* a request is transmitted on the channel i in this step
RequestSent(i) ==
    \E j \in DOMAIN ev'.sent : ev'.sent[j].cmd = "request" /\ ev'.sent[j].id = i

\* a response frame arrives in this step on the channel i, which awaits one
ResponseOn(i) ==
    /\ ev'.op = "receive" /\ ev'.cxn = i /\ ev'.frame.type = "response"
    /\ active_cxn[i].response_pending

AckOn(i) == ev'.op = "receive" /\ ev'.cxn = i /\ ev'.frame.type = "ack"

\* the callback c, if there is one still open, is completed in this step
Completes(c) == (c # NoCb /\ ~callbacks[c].done) => FiredFor(ev', c) # {}

\* C33: an ack that equals ack_pending clears it and completes the ack callback; an ack
\* that differs reports an error, fails the response callback with null, leaves
\* ack_pending set and does not complete the ack callback; an ack when none is pending
\* reports an error and changes nothing of the channel
C33_AckHandling ==
    [][\A i \in DOMAIN active_cxn :
          AckOn(i) =>
             CASE active_cxn[i].ack_pending = None ->
                     /\ ev'.alerts = <<"Ack Unexpected">>
                     /\ active_cxn'[i] = active_cxn[i]
                     /\ ev'.fired = <<>>
               [] active_cxn[i].ack_pending = ev'.frame.data ->
                     /\ active_cxn'[i].ack_pending = None
                     /\ Completes(active_cxn[i].ack_callback)
                     /\ Cardinality(FiredFor(ev', active_cxn[i].ack_callback)) <= 1
                     /\ ev'.alerts = <<>>
               [] OTHER ->
                     /\ ev'.alerts # <<>> /\ ev'.alerts[1] = "Ack Mismatch"
                     /\ Completes(active_cxn[i].response_callback)
                     /\ active_cxn'[i].ack_pending = active_cxn[i].ack_pending
                     /\ FiredFor(ev', active_cxn[i].ack_callback) = {}]_vars

\* a row of the ORDERS advise whose CLIENT_ORDER_ID names the pending ticket tid is
\* handled in this step
TicketRowFor(tid) ==
    /\ ev'.op = "receive" /\ ev'.frame.type = "update"
    /\ Get(ev'.frame.row, "CLIENT_ORDER_ID", None) = tid

\* C38: after create_staged_order_ticket, an order row whose CLIENT_ORDER_ID is the
\* ticket id moves the ticket from pending_tickets to tickets under that id and
\* completes the caller's ticket callback, unless it expired before
C38_TicketPromoted ==
    [][\A tid \in DOMAIN pending_tickets :
          TicketRowFor(tid) =>
             /\ ~HasField(pending_tickets', tid)
             /\ HasField(tickets', tid) /\ tickets'[tid] = pending_tickets[tid]
             /\ Completes(order_objs[pending_tickets[tid]].callback)]_vars

\* the status the command that registered the status callback c on the channel i
\* expects, whether the command was sent or is stored for the replay; None if c is
\* not a status callback of the channel
ExpectedStatus(i, c) ==
    CASE active_cxn[i].status_callback = c -> active_cxn[i].status_pending
      [] active_cxn[i].on_connect_action.cbs = c -> active_cxn[i].on_connect_action.exs
      [] OTHER -> None

\* C35: the status callback of a command is completed only by a status frame of its
\* channel whose msg is the status the command expects and whose status is '1', also
\* when the command was stored before the channel connected and replayed on OnInitAck;
\* a status other than '1' reports an error and completes nothing
C35_StatusCallbackExpected ==
    [][\A i \in DOMAIN active_cxn :
          /\ \A c \in DOMAIN callbacks :
                (/\ c \in {active_cxn[i].status_callback, active_cxn[i].on_connect_action.cbs}
                 /\ \E j \in FiredFor(ev', c) : ev'.fired[j].how = "callback")
                => /\ ev'.op = "receive" /\ ev'.cxn = i /\ ev'.frame.type = "status"
                   /\ ev'.frame.status = "1"
                   /\ ev'.frame.msg = ExpectedStatus(i, c)
          /\ (/\ ev'.op = "receive" /\ ev'.cxn = i /\ ev'.frame.type = "status"
              /\ ev'.frame.msg = active_cxn[i].status_pending
              /\ ev'.frame.status # "1")
             => /\ ev'.alerts = <<"Status Error">>
                /\ ev'.fired = <<>>]_vars

====
